---- MODULE Spec2Model ----
(***************************************************************************)
(* Model of the live-stream ingestion pipeline of supervsr_backend:        *)
(*   - StreamManager (api/tasks/stream_manager.py): one FFmpeg transcoder  *)
(*     per stream id, five dictionaries guarded by one lock;               *)
(*   - the scheduler jobs verify_streams and screenshots                   *)
(*     (api/tasks/cron_jobs.py);                                           *)
(*   - ScreenshotProcessor.process_screenshot and _create_grid             *)
(*     (api/tasks/screenshot_processor.py).                                *)
(* Every "with self._lock:" block is one atomic step; what a method does   *)
(* outside the lock (mkdtemp, Popen, reading the directory, poll(),        *)
(* killpg/wait/kill, rmtree) is a step of its own, so that other threads   *)
(* interleave exactly where the code lets them.                            *)
(*                                                                         *)
(* Specifications:                                                         *)
(*   Spec      client threads call the manager's methods concurrently      *)
(*   SpecSeq   one client thread calls them one after the other            *)
(*   SpecCron  the two scheduler jobs run concurrently, fairly scheduled   *)
(*   SpecShots process_screenshot is called tick after tick                *)
(*   SpecSched the scheduler starts and drops the runs of its two jobs     *)
(*   SpecCache get_streams is called as time passes                        *)
(*   SpecGrid  screenshots are uploaded and grids are stitched             *)
(*   SpecAdapter a grid is analysed for a SOP with a schema of its own     *)
(*   SpecVision one streaming call of GeminiService.analyze_screenshot     *)
(*   SpecUrl   validate_rtsp_url is applied to a URL                       *)
(*   SpecRefresh the two jobs call get_streams concurrently                *)
(*   SpecStitch  images are downloaded, annotated and stitched into a grid *)
(*   SpecSchema  a structured_output schema is validated                 *)
(*   SpecListing blobs of several streams are uploaded and listed         *)
(*   SpecRing  a transcoder writes more lines than its ring holds          *)
(*   SpecLock  the manager's methods as sequences of lock, map and I/O     *)
(*             operations, the lock acquired and released step by step     *)
(***************************************************************************)
EXTENDS Integers, Sequences, FiniteSets, TLC

\* ------------------------------------------------------------------ bounds
NumStreams == 1          \* stream ids 1 .. NumStreams
MaxProcs == 2            \* transcoder processes the model tells apart
MaxDirs == 2             \* scratch directories the model tells apart
MaxLines == 1            \* stderr lines one transcoder writes (Spec, SpecCron)
MaxCalls == 3            \* calls the client threads make in all (Spec)
SeqMaxLines == 6         \* stderr lines one transcoder writes (SpecSeq)
SeqMaxCalls == 2          \* calls the client thread makes (SpecSeq)
MaxPasses == 1           \* passes of the screenshots job (SpecCron)
MaxTicks == 13           \* calls of process_screenshot (SpecShots)
NumRegistered == 2       \* streams get_streams() returns (SpecSched)
MaxDue == 2              \* times the interval of one job elapses (SpecSched)
MaxClock == 4            \* times the clock advances (SpecCache)
MaxFetches == 4          \* calls of get_streams (SpecCache)
MaxStamp == 6            \* wall-clock seconds the model tells apart (SpecGrid)
MaxUploads == 6          \* uploads to the bucket (SpecGrid)
MaxChunks == 3           \* chunks of one streamed response (SpecVision)
MaxWaits == 3            \* times the clock advances during a call (SpecVision)
RingMaxLines == 102      \* stderr lines one transcoder writes (SpecRing)
MaxRefreshes == 2        \* calls of get_streams one job makes (SpecRefresh)
MaxListed == 4           \* uploads to the bucket (SpecListing)
MaxListStamp == 3        \* wall-clock seconds the listing tells apart (SpecListing)
MaxCount == 2            \* the greatest count a listing is asked for (SpecListing)
MaxGridRows == 2         \* the greatest grid_rows of a stitch (SpecStitch)
MaxGridCols == 2         \* the greatest grid_cols of a stitch (SpecStitch)
MaxUrls == 3             \* the most urls a stitch is given (SpecStitch)
SmallSide == 1           \* width or height of a small image, in pixels (SpecStitch)
MaxDepth == 2            \* nesting of the schemas validated (SpecSchema)
LargeSide == 12          \* width or height of a large image, in pixels (SpecStitch)

\* ------------------------------------------------------- program constants
LOG_HISTORY_SIZE == 100  \* StreamManager.LOG_HISTORY_SIZE
LOG_TAIL == 5            \* the slice [-5:] in get_stream_status
GRID_ROWS == 2           \* cron_jobs.GRID_ROWS
GRID_COLS == 3           \* cron_jobs.GRID_COLS
STREAMS_CACHE_TTL == 300 \* config STREAMS_CACHE_TTL, in seconds
TIMEOUT_SECONDS == 30    \* GeminiConfig.timeout_seconds
LABEL_MARGIN == 60       \* stitcher.LABEL_MARGIN
BORDER_SIZE == 10        \* stitcher.BORDER_SIZE

StreamIds == 1 .. NumStreams
ProcIds == 1 .. MaxProcs
DirIds == 1 .. MaxDirs
NoProc == 0
NoDir == 0

Clients == {"c1", "c2"}          \* threads calling the manager's public methods
Jobs == {"verify", "shots"}      \* the scheduler's two interval jobs
Threads == Clients \cup Jobs
\* the threads that take the manager's lock: the callers and a stderr reader
LockThreads == Clients \cup {"reader"}

\* the ids register_cron_jobs gives to the jobs it adds to the scheduler
JobIds == {"verify_streams", "screenshots"}
\* the streams get_streams() returns
RegistryIds == 1 .. NumRegistered

RtspUrl(s) == "rtsp://cam"

VARIABLES
    streams,      \* self.streams: insertion-ordered dict, <<[id, url], ...>>
    temp_dirs,    \* self.temp_dirs: stream id -> directory, NoDir when absent
    processes,    \* self.processes: stream id -> process, NoProc when absent
    status,       \* self.status: stream id -> [status, error], "absent" when absent
    ffmpeg_logs,  \* self.ffmpeg_logs: stream id -> [has, dq]
    procs,        \* the operating system's view of the launched transcoders
    dirs,         \* the file system's view of the scratch directories
    pc,           \* per thread: the statement it is at
    stack,        \* per thread: the labels its pending calls return to
    loc,          \* per thread: the local variables of its frames
    rv,           \* per thread: what its last finished call returned
    screenshot_counts,     \* ScreenshotProcessor.screenshot_counts
    screenshots_per_grid,  \* ScreenshotProcessor.screenshots_per_grid
    store,        \* object store: blobs under screenshots/{id}- per stream
    obs,          \* per stream: what an observer of the pipeline has counted
    calls,        \* the calls the client threads have made
    passes,       \* the passes of the screenshots job begun
    healthy,      \* from now on the transcoder can be launched and verified
    instances,    \* per scheduler job: its runs in progress
    joblog,       \* per scheduler job: intervals elapsed, runs dropped
    counters,     \* per registered stream: screenshot_counts, and the increments made
    streams_cache,  \* cron_jobs.streams_cache: streams, last_updated, ttl (0: None)
    now,          \* time.time(), in seconds
    fetched,      \* the calls of get_streams made, and what the last one did
    bucket,       \* the blobs under screenshots/{id}- in the object store
    uploadsMade,  \* the uploads made to the bucket
    grid,         \* the last grid stitched: per position, its cell and key timestamp
    adapter,      \* one analysis: the SOP's schema, the model's response, the outcome
    vision,       \* one call of GeminiService.analyze_screenshot
    rtsp,         \* one call of validate_rtsp_url: the URL and the answer
    holder,       \* self._lock: the thread holding it, or "free"
    prog,         \* per thread: the lock, map and I/O operations it has yet to do
    refresh,      \* per scheduler job: its call of get_streams in progress
    wrote,        \* the job that wrote streams_cache['streams'] last
    listing,      \* the last call of get_recent_screenshot_urls and its result
    stitcher,     \* one call of stitcher.process_images: its input and its canvas
    schema        \* one call of validate_structured_output: the schema, the answer

mgr == <<streams, temp_dirs, processes, status, ffmpeg_logs>>
env == <<procs, dirs>>
thr == <<pc, stack, loc, rv>>
sp == <<screenshot_counts, screenshots_per_grid, store, obs>>
drv == <<calls, passes, healthy>>
sch == <<instances, joblog, counters>>
pipeline == <<mgr, env, thr, sp, drv>>
cat == <<streams_cache, now, fetched>>
gcs == <<bucket, uploadsMade, grid, adapter>>
lockv == <<holder, prog>>
rfv == <<refresh, wrote>>
ext == <<stitcher, schema>>
svc == <<vision, rtsp, lockv, rfv, listing, ext>>
old == <<pipeline, sch, cat, gcs, vision, rtsp, lockv, rfv, listing>>
\* everything but the variables of one service
exVision == <<pipeline, sch, cat, gcs, rtsp, lockv, rfv, listing, ext>>
exUrl == <<pipeline, sch, cat, gcs, vision, lockv, rfv, listing, ext>>
exLock == <<pipeline, sch, cat, gcs, vision, rtsp, rfv, listing, ext>>
exRefresh == <<pipeline, sch, gcs, vision, rtsp, lockv, now, fetched, listing, ext>>
exListing == <<grid, adapter, pipeline, sch, cat, vision, rtsp, lockv, rfv, ext>>
vars == <<streams, temp_dirs, processes, status, ffmpeg_logs, procs, dirs,
          pc, stack, loc, rv, screenshot_counts, screenshots_per_grid, store,
          obs, calls, passes, healthy, instances, joblog, counters,
          streams_cache, now, fetched, bucket, uploadsMade, grid, adapter,
          vision, rtsp, holder, prog, refresh, wrote,
          listing, stitcher, schema>>

\* ------------------------------------------------------------ dictionaries
Keys(d) == {d[i].id : i \in DOMAIN d}
DictPop(d, s) == SelectSeq(d, LAMBDA e : e.id # s)
DictSet(d, s, u) ==
    IF s \in Keys(d)
    THEN [i \in DOMAIN d |-> IF d[i].id = s THEN [id |-> s, url |-> u] ELSE d[i]]
    ELSE Append(d, [id |-> s, url |-> u])

Stat(st, err) == [status |-> st, error |-> err, logs |-> <<>>]
StatAbsent == Stat("absent", "None")
NoRing == [has |-> FALSE, dq |-> <<>>]
EmptyRing == [has |-> TRUE, dq |-> <<>>]

\* variant of DequeAppend without maxlen (sensitivity of C25)
DequeAppendUnbounded(dq, x) == Append(dq, x)
\* deque(maxlen=LOG_HISTORY_SIZE).append
DequeAppend(dq, x) ==
    IF Len(dq) < LOG_HISTORY_SIZE THEN Append(dq, x)
    ELSE Append(Tail(dq), x)

\* variant of LastLines that forgets the slice (sensitivity of C6)
WholeRing(dq) == dq

\* list(dq)[-5:]
LastLines(dq) ==
    IF Len(dq) <= LOG_TAIL THEN dq
    ELSE SubSeq(dq, Len(dq) - LOG_TAIL + 1, Len(dq))

\* ------------------------------------------------------------- environment
FreeProc == [state |-> "free", sid |-> 0, dir |-> NoDir, out |-> 0,
             reader |-> "none"]
\* hls: what the transcoder has written so far. The HLS muxer opens its first
\* segment, and writes the playlist once that segment is complete:
\* "empty" -> "segment" -> "partial" (playlist.m3u8 not yet complete) -> "ready"
NoSuchDir == [exists |-> FALSE, hls |-> "empty"]
EmptyDir == [exists |-> TRUE, hls |-> "empty"]

Alive(p) == p # NoProc /\ procs[p].state = "alive"
Exited(p) == p # NoProc /\ procs[p].state = "dead"
LiveFor(s) == {p \in ProcIds : Alive(p) /\ procs[p].sid = s}

LocInit == [sid |-> 0, temp |-> NoDir, newp |-> NoProc,
            sproc |-> NoProc, stemp |-> NoDir,
            qproc |-> NoProc, stat |-> StatAbsent, ids |-> <<>>,
            fdir |-> NoDir, todo |-> <<>>]
\* op: the method; val: "True", "False", "None", "stat", "path" or "raised";
\* line: the source line of the return statement taken; stat: the snapshot a
\* get_stream_status returned; dir: the directory of a returned frame path
RvInit == [op |-> "none", sid |-> 0, val |-> "None", line |-> 0,
           stat |-> StatAbsent, dir |-> NoDir]
ObsInit == [ticks |-> 0, uploads |-> 0, grids |-> 0, posts |-> 0,
            dispatches |-> 0, since |-> 0, gap |-> 0, clean |-> TRUE,
            last |-> "none", copied |-> FALSE, ret |-> "none",
            analysis |-> "none", urls |-> -1, sops |-> "unknown",
            ok |-> FALSE, frame |-> FALSE]

\* An identifier is reused once nothing refers to it any more.
ProcReferenced(p) ==
    \/ \E s \in StreamIds : processes[s] = p
    \/ \E t \in Threads : p \in {loc[t].newp, loc[t].sproc, loc[t].qproc}
ProcUnused(p) ==
    \/ procs[p].state = "free"
    \/ /\ procs[p].state = "dead"
       /\ procs[p].reader # "running"
       /\ ~ProcReferenced(p)
DirReferenced(d) ==
    \/ \E s \in StreamIds : temp_dirs[s] = d
    \/ \E t \in Threads : d \in {loc[t].temp, loc[t].stemp, loc[t].fdir}
    \/ \E t \in Threads : rv[t].dir = d
    \/ \E p \in ProcIds : procs[p].dir = d
DirUnused(d) == ~dirs[d].exists /\ ~DirReferenced(d)

Min(S) == CHOOSE x \in S : \A y \in S : x <= y

\* the manager, its environment, the threads and the processor
InitPipeline ==
    /\ streams = <<>>
    /\ temp_dirs = [s \in StreamIds |-> NoDir]
    /\ processes = [s \in StreamIds |-> NoProc]
    /\ status = [s \in StreamIds |-> StatAbsent]
    /\ ffmpeg_logs = [s \in StreamIds |-> NoRing]
    /\ procs = [p \in ProcIds |-> FreeProc]
    /\ dirs = [d \in DirIds |-> NoSuchDir]
    /\ pc = [t \in Threads |-> "idle"]
    /\ stack = [t \in Threads |-> <<>>]
    /\ loc = [t \in Threads |-> LocInit]
    /\ rv = [t \in Threads |-> RvInit]
    /\ screenshot_counts = [s \in StreamIds |-> 0]
    /\ screenshots_per_grid = GRID_ROWS * GRID_COLS
    /\ store = [s \in StreamIds |-> 0]
    /\ obs = [s \in StreamIds |-> ObsInit]
    /\ calls = 0
    /\ passes = 0
    /\ healthy = FALSE

\* the scheduler before the first interval has elapsed
InitScheduler ==
    /\ instances = [j \in JobIds |-> <<>>]
    /\ joblog = [j \in JobIds |-> [due |-> 0, dropped |-> 0]]

\* cron_jobs is loaded with an empty cache stamped 0 and no TTL, at a time
\* that is later than the TTL after the epoch
InitCatalog ==
    /\ streams_cache = [streams |-> <<>>, last_updated |-> 0, ttl |-> 0]
    /\ now = STREAMS_CACHE_TTL
    /\ fetched = [calls |-> 0, requested |-> FALSE, outcome |-> "none",
                  ret |-> <<>>]

\* an empty bucket, no grid stitched
InitBucket ==
    /\ bucket = {}
    /\ uploadsMade = 0
    /\ grid = <<>>

\* no vision call issued
NoCall == [at |-> "idle", elapsed |-> 0, total |-> 0, got |-> 0, fullAt |-> -1,
           result |-> "none", cause |-> "none"]

\* a job that is not inside get_streams
NoRefresh == [at |-> "idle", current_time |-> 0, data |-> <<>>, ret |-> <<>>,
              calls |-> 0, written |-> <<>>]

\* get_recent_screenshot_urls has not been called
NoListing == [sid |-> 0, count |-> 0, urls |-> <<>>]

\* process_images has not been called
NoStitch == [urls |-> <<>>, rows |-> 0, cols |-> 0, result |-> "none",
             images |-> <<>>, canvas |-> [width |-> 0, height |-> 0, pastes |-> <<>>]]
InitStitcher == stitcher = NoStitch
\* validate_structured_output has not been called
NoSchema == [tree |-> <<>>, result |-> "none"]
InitSchema == schema = NoSchema

InitServices ==
    /\ InitStitcher
    /\ InitSchema
    /\ vision = NoCall
    /\ rtsp = [parts |-> <<>>, url |-> <<>>, result |-> "none"]
    /\ holder = "free"
    /\ prog = [t \in LockThreads |-> <<>>]
    /\ refresh = [j \in JobIds |-> NoRefresh]
    /\ wrote = "none"
    /\ listing = NoListing

Init ==
    /\ InitPipeline
    /\ InitScheduler
    /\ InitCatalog
    /\ InitBucket
    /\ InitServices
    /\ adapter = [result |-> "none"]
    /\ counters = [s \in RegistryIds |-> [count |-> 0, made |-> 0]]

\* the state after construction, the stitcher and the schema validator apart
InitQuiet ==
    /\ InitPipeline
    /\ InitScheduler
    /\ InitCatalog
    /\ InitBucket
    /\ adapter = [result |-> "none"]
    /\ counters = [s \in RegistryIds |-> [count |-> 0, made |-> 0]]
    /\ vision = NoCall
    /\ rtsp = [parts |-> <<>>, url |-> <<>>, result |-> "none"]
    /\ holder = "free"
    /\ prog = [t \in LockThreads |-> <<>>]
    /\ refresh = [j \in JobIds |-> NoRefresh]
    /\ wrote = "none"
    /\ listing = NoListing

\* --------------------------------------------------------- call and return
Call(t, entry, back) ==
    /\ pc' = [pc EXCEPT ![t] = entry]
    /\ stack' = [stack EXCEPT ![t] = <<back>> \o @]
Return(t) ==
    /\ pc' = [pc EXCEPT ![t] = Head(stack[t])]
    /\ stack' = [stack EXCEPT ![t] = Tail(@)]
Goto(t, l) ==
    /\ pc' = [pc EXCEPT ![t] = l]
    /\ UNCHANGED stack

\* What a frame leaves behind when it returns: its locals go out of scope.
Unwound(t, l) == IF Head(stack[t]) = "idle" THEN LocInit ELSE l
Returned(t, op, val, line, st, d) ==
    /\ rv' = [rv EXCEPT ![t] = [op |-> op, sid |-> loc[t].sid, val |-> val,
                                line |-> line, stat |-> st, dir |-> d]]
    /\ Return(t)

\* ------------------------------------------------ StreamManager.start_stream
\* variant of AlreadyRegistered that tests the processes map (sensitivity of C3)
RegisteredProcess(s) == processes[s] # NoProc

\* if stream_id in self.streams
AlreadyRegistered(s) == s \in Keys(streams)

StartReserve(t) ==
    LET s == loc[t].sid IN
    /\ pc[t] = "start_reserve"
    /\ IF AlreadyRegistered(s)
       THEN /\ Returned(t, "start", "False", 120, StatAbsent, NoDir)
            /\ loc' = [loc EXCEPT ![t] = Unwound(t, @)]
            /\ UNCHANGED <<mgr, env>>
       ELSE /\ streams' = DictSet(streams, s, RtspUrl(s))
            /\ status' = [status EXCEPT ![s] = Stat("init", "None")]
            /\ Goto(t, "start_mkdtemp")
            /\ UNCHANGED <<temp_dirs, processes, ffmpeg_logs, env, loc, rv>>

\* tempfile.mkdtemp: a fresh directory, or an OSError that leaves start_stream
StartMkdtemp(t) ==
    /\ pc[t] = "start_mkdtemp"
    /\ \/ /\ \E d \in DirIds : DirUnused(d)
          /\ LET d == Min({x \in DirIds : DirUnused(x)}) IN
             /\ dirs' = [dirs EXCEPT ![d] = EmptyDir]
             /\ loc' = [loc EXCEPT ![t].temp = d]
          /\ Goto(t, "start_settemp")
          /\ UNCHANGED <<mgr, procs, rv>>
       \/ /\ ~healthy
          /\ Returned(t, "start", "raised", 123, StatAbsent, NoDir)
          /\ loc' = [loc EXCEPT ![t] = Unwound(t, @)]
          /\ UNCHANGED <<mgr, env>>

StartSetTemp(t) ==
    /\ pc[t] = "start_settemp"
    /\ temp_dirs' = [temp_dirs EXCEPT ![loc[t].sid] = loc[t].temp]
    /\ Goto(t, "start_popen")
    /\ UNCHANGED <<streams, processes, status, ffmpeg_logs, env, loc, rv>>

\* subprocess.Popen in _launch_ffmpeg: a new process group, or OSError
LaunchPopen(t) ==
    /\ pc[t] = "start_popen"
    /\ \/ /\ \E p \in ProcIds : ProcUnused(p)
          /\ LET p == Min({x \in ProcIds : ProcUnused(x)}) IN
             /\ procs' = [procs EXCEPT ![p] =
                    [state |-> "alive", sid |-> loc[t].sid, dir |-> loc[t].temp,
                     out |-> 0, reader |-> "none"]]
             /\ loc' = [loc EXCEPT ![t].newp = p]
          /\ Goto(t, "launch_register")
          /\ UNCHANGED <<mgr, dirs, rv>>
       \/ /\ ~healthy
          /\ Goto(t, "start_oserror")
          /\ UNCHANGED <<mgr, env, loc, rv>>

\* the locked block of _launch_ffmpeg, then _log_ffmpeg starting the reader
\* thread (the reader shares nothing with the steps in between)
LaunchRegister(t) ==
    LET s == loc[t].sid
        p == loc[t].newp IN
    /\ pc[t] = "launch_register"
    /\ processes' = [processes EXCEPT ![s] = p]
    /\ ffmpeg_logs' = [ffmpeg_logs EXCEPT ![s] = EmptyRing]
    /\ procs' = [procs EXCEPT ![p].reader = "running"]
    /\ loc' = [loc EXCEPT ![t].newp = NoProc]
    /\ Goto(t, "verify_check")
    /\ UNCHANGED <<streams, temp_dirs, status, dirs, rv>>

StartOSError(t) ==
    /\ pc[t] = "start_oserror"
    /\ status' = [status EXCEPT ![loc[t].sid] = Stat("error", "OSError")]
    /\ Call(t, "stop_pop", "start_failed")
    /\ UNCHANGED <<streams, temp_dirs, processes, ffmpeg_logs, env, loc, rv>>

\* one pass of the loop of _verify_hls over the directory
PlaylistExists(d) == dirs[d].exists /\ dirs[d].hls \in {"partial", "ready"}
HasSegment(d) == dirs[d].exists /\ dirs[d].hls \in {"segment", "partial", "ready"}
StartsWithMagic(d) == dirs[d].exists /\ dirs[d].hls = "ready"
HlsFound(d) == PlaylistExists(d) /\ HasSegment(d) /\ StartsWithMagic(d)

\* A transcoder that can be launched and verified delivers before the deadline.
Delivering(d) ==
    healthy /\ dirs[d].exists /\ \E p \in ProcIds : Alive(p) /\ procs[p].dir = d

\* _verify_hls: a pass of the loop that finds the files returns True; after a
\* pass that did not, the deadline may pass and the loop ends with False.
VerifyCheck(t) ==
    /\ pc[t] = "verify_check"
    /\ IF HlsFound(loc[t].temp)
       THEN Goto(t, "start_running")
       ELSE /\ ~Delivering(loc[t].temp)
            /\ Goto(t, "start_timeout")
    /\ UNCHANGED <<mgr, env, loc, rv>>

StartTimeout(t) ==
    /\ pc[t] = "start_timeout"
    /\ status' = [status EXCEPT ![loc[t].sid] = Stat("error", "HLS setup timeout")]
    /\ Call(t, "stop_pop", "start_failed")
    /\ UNCHANGED <<streams, temp_dirs, processes, ffmpeg_logs, env, loc, rv>>

\* return False, after the stop_stream of either error path
StartFailed(t) ==
    /\ pc[t] = "start_failed"
    /\ Returned(t, "start", "False", 137, StatAbsent, NoDir)
    /\ loc' = [loc EXCEPT ![t] = Unwound(t, [@ EXCEPT !.temp = NoDir])]
    /\ UNCHANGED <<mgr, env>>

StartRunning(t) ==
    /\ pc[t] = "start_running"
    /\ status' = [status EXCEPT ![loc[t].sid] = Stat("running", "None")]
    /\ Returned(t, "start", "True", 140, StatAbsent, NoDir)
    /\ loc' = [loc EXCEPT ![t] = Unwound(t, [@ EXCEPT !.temp = NoDir])]
    /\ UNCHANGED <<streams, temp_dirs, processes, ffmpeg_logs, env>>

\* ------------------------------------------- StreamManager.get_stream_status
StatRead(t) ==
    LET s == loc[t].sid IN
    /\ pc[t] = "stat_read"
    /\ IF status[s].status = "absent"
       THEN /\ Returned(t, "status", "stat", 145, Stat("unknown", "not found"), NoDir)
            /\ loc' = [loc EXCEPT ![t] = Unwound(t, @)]
       ELSE /\ loc' = [loc EXCEPT ![t].stat = status[s],
                                  ![t].qproc = processes[s]]
            /\ Goto(t, "stat_poll")
            /\ UNCHANGED rv
    /\ UNCHANGED <<mgr, env>>

\* proc and proc.poll() is not None
PollExited(p) == p # NoProc /\ Exited(p)

\* the snapshot synthesized for a process that has exited
Synthesized(dq) ==
    [status |-> "error", error |-> "Process exited", logs |-> LastLines(dq)]

\* proc.poll(); when the process has exited, the last lines of the ring
\* (self.ffmpeg_logs.get(stream_id, []), read without the lock) and stop_stream
StatPoll(t) ==
    /\ pc[t] = "stat_poll"
    /\ IF PollExited(loc[t].qproc)
       THEN /\ loc' = [loc EXCEPT
                   ![t].stat = Synthesized(ffmpeg_logs[loc[t].sid].dq),
                   ![t].qproc = NoProc]
            /\ Call(t, "stop_pop", "stat_return")
            /\ UNCHANGED rv
       ELSE /\ Returned(t, "status", "stat", 152, loc[t].stat, NoDir)
            /\ loc' = [loc EXCEPT ![t] =
                   Unwound(t, [@ EXCEPT !.stat = StatAbsent, !.qproc = NoProc])]
    /\ UNCHANGED <<mgr, env>>

StatReturn(t) ==
    /\ pc[t] = "stat_return"
    /\ Returned(t, "status", "stat", 152, loc[t].stat, NoDir)
    /\ loc' = [loc EXCEPT ![t] = Unwound(t, [@ EXCEPT !.stat = StatAbsent])]
    /\ UNCHANGED <<mgr, env>>

\* ------------------------------------------------- StreamManager.stop_stream
Die(pr) == [pr EXCEPT !.state = "dead", !.dir = NoDir]

\* the five pops of the locked block
PoppedLogs(s) == [ffmpeg_logs EXCEPT ![s] = NoRing]
PoppedStreams(s) == DictPop(streams, s)

StopPop(t) ==
    LET s == loc[t].sid IN
    /\ pc[t] = "stop_pop"
    /\ loc' = [loc EXCEPT ![t].sproc = processes[s], ![t].stemp = temp_dirs[s]]
    /\ processes' = [processes EXCEPT ![s] = NoProc]
    /\ temp_dirs' = [temp_dirs EXCEPT ![s] = NoDir]
    /\ streams' = PoppedStreams(s)
    /\ status' = [status EXCEPT ![s] = StatAbsent]
    /\ ffmpeg_logs' = PoppedLogs(s)
    /\ Goto(t, "stop_kill")
    /\ UNCHANGED <<env, rv>>

\* killpg(SIGTERM), wait(5), and kill() when that raised: the process is gone
StopKill(t) ==
    LET p == loc[t].sproc IN
    /\ pc[t] = "stop_kill"
    /\ procs' = IF p # NoProc THEN [procs EXCEPT ![p] = Die(@)] ELSE procs
    /\ Goto(t, "stop_rmtree")
    /\ UNCHANGED <<mgr, dirs, loc, rv>>

StopRmtree(t) ==
    LET d == loc[t].stemp IN
    /\ pc[t] = "stop_rmtree"
    /\ dirs' = IF d # NoDir /\ dirs[d].exists
               THEN [dirs EXCEPT ![d] = NoSuchDir] ELSE dirs
    /\ Returned(t, "stop", "None", 188, StatAbsent, NoDir)
    /\ loc' = [loc EXCEPT ![t] = Unwound(t, [@ EXCEPT !.sproc = NoProc, !.stemp = NoDir])]
    /\ UNCHANGED <<mgr, procs>>

\* ---------------------------------------------------- StreamManager.stop_all
StopAllIds(t) ==
    /\ pc[t] = "stopall_ids"
    /\ loc' = [loc EXCEPT ![t].ids = [i \in DOMAIN streams |-> streams[i].id]]
    /\ Goto(t, "stopall_loop")
    /\ UNCHANGED <<mgr, env, rv>>

StopAllLoop(t) ==
    /\ pc[t] = "stopall_loop"
    /\ IF loc[t].ids = <<>>
       THEN /\ Returned(t, "stop_all", "None", 194, StatAbsent, NoDir)
            /\ loc' = [loc EXCEPT ![t] = Unwound(t, @)]
       ELSE /\ loc' = [loc EXCEPT ![t].sid = Head(loc[t].ids),
                                  ![t].ids = Tail(loc[t].ids)]
            /\ Call(t, "stop_pop", "stopall_loop")
            /\ UNCHANGED rv
    /\ UNCHANGED <<mgr, env>>

\* ----------------------------------------- StreamManager.get_latest_frame
FrameRead(t) ==
    /\ pc[t] = "frame_read"
    /\ loc' = [loc EXCEPT ![t].fdir = temp_dirs[loc[t].sid]]
    /\ Goto(t, "frame_isdir")
    /\ UNCHANGED <<mgr, env, rv>>

\* if not d or not os.path.isdir(d): return None
FrameIsdir(t) ==
    LET d == loc[t].fdir IN
    /\ pc[t] = "frame_isdir"
    /\ IF d = NoDir \/ ~dirs[d].exists
       THEN /\ Returned(t, "frame", "None", 158, StatAbsent, NoDir)
            /\ loc' = [loc EXCEPT ![t] = Unwound(t, [@ EXCEPT !.fdir = NoDir])]
       ELSE /\ Goto(t, "frame_extract")
            /\ UNCHANGED <<loc, rv>>
    /\ UNCHANGED <<mgr, env>>

\* os.listdir(d) raises FileNotFoundError: d was removed after the isdir test
ListdirRaises(d) == ~dirs[d].exists

\* listdir for .ts, and the one-shot extractor writing {id}_latest.jpg
FrameExtract(t) ==
    LET d == loc[t].fdir IN
    /\ pc[t] = "frame_extract"
    /\ IF ListdirRaises(d)
       THEN Returned(t, "frame", "raised", 159, StatAbsent, NoDir)
       ELSE IF ~HasSegment(d)
       THEN Returned(t, "frame", "None", 161, StatAbsent, NoDir)
       ELSE \/ Returned(t, "frame", "path", 167, StatAbsent, d)
            \/ Returned(t, "frame", "None", 169, StatAbsent, NoDir)
    /\ loc' = [loc EXCEPT ![t] = Unwound(t, [@ EXCEPT !.fdir = NoDir])]
    /\ UNCHANGED <<mgr, env>>

\* ------------------------------------- the transcoder and its stderr reader
EnvCrash(p) ==
    /\ ~healthy
    /\ Alive(p)
    /\ procs' = [procs EXCEPT ![p] = Die(@)]
    /\ UNCHANGED <<mgr, dirs, thr>>

EnvWrite(p) ==
    LET d == procs[p].dir IN
    /\ Alive(p)
    /\ dirs[d].exists
    /\ dirs[d].hls # "ready"
    /\ dirs' = [dirs EXCEPT ![d].hls =
           CASE @ = "empty" -> "segment"
             [] @ = "segment" -> "partial"
             [] @ = "partial" -> "ready"]
    /\ UNCHANGED <<mgr, procs, thr>>

\* reader() of _log_ffmpeg: a line read from the pipe (the transcoder wrote it
\* before it went away), then setdefault and append under the lock
ReaderAppend(p, max) ==
    LET s == procs[p].sid
        line == [p |-> p, n |-> procs[p].out + 1] IN
    /\ procs[p].reader = "running"
    /\ procs[p].out < max
    /\ ffmpeg_logs' = [ffmpeg_logs EXCEPT ![s] =
           [has |-> TRUE, dq |-> DequeAppend(@.dq, line)]]
    /\ procs' = [procs EXCEPT ![p].out = @ + 1]
    /\ UNCHANGED <<streams, temp_dirs, processes, status, dirs, thr>>

\* readline returns "" once the process is gone and the pipe is drained
ReaderEOF(p) ==
    /\ procs[p].reader = "running"
    /\ Exited(p)
    /\ procs' = [procs EXCEPT ![p] =
           [FreeProc EXCEPT !.state = "dead", !.reader = "done"]]
    /\ UNCHANGED <<mgr, dirs, thr>>

ManagerStep(t) ==
    /\ \/ StartReserve(t) \/ StartMkdtemp(t) \/ StartSetTemp(t) \/ LaunchPopen(t)
       \/ LaunchRegister(t) \/ StartOSError(t) \/ VerifyCheck(t)
       \/ StartTimeout(t) \/ StartFailed(t) \/ StartRunning(t)
       \/ StatRead(t) \/ StatPoll(t) \/ StatReturn(t)
       \/ StopPop(t) \/ StopKill(t) \/ StopRmtree(t)
       \/ StopAllIds(t) \/ StopAllLoop(t)
    /\ UNCHANGED <<sp, drv, sch, cat, gcs, svc>>

FrameStep(t) ==
    /\ FrameRead(t) \/ FrameIsdir(t) \/ FrameExtract(t)
    /\ UNCHANGED <<sp, drv, sch, cat, gcs, svc>>

EnvStep(max) ==
    /\ \E p \in ProcIds :
          \/ EnvCrash(p) \/ EnvWrite(p) \/ ReaderAppend(p, max) \/ ReaderEOF(p)
    /\ UNCHANGED <<sp, drv, sch, cat, gcs, svc>>

\* ------------------------------------------------------------ client threads
Entry(op) ==
    CASE op = "start" -> "start_reserve"
      [] op = "stop" -> "stop_pop"
      [] op = "status" -> "stat_read"
      [] op = "stop_all" -> "stopall_ids"

ClientCall(t, max) ==
    /\ pc[t] = "idle"
    /\ calls < max
    /\ calls' = calls + 1
    /\ \E op \in {"start", "stop", "status", "stop_all"} :
       \E s \in StreamIds :
          /\ pc' = [pc EXCEPT ![t] = Entry(op)]
          /\ stack' = [stack EXCEPT ![t] = <<"idle">>]
          /\ loc' = [loc EXCEPT ![t].sid = IF op = "stop_all" THEN 0 ELSE s]
          /\ rv' = [rv EXCEPT ![t] = RvInit]
    /\ UNCHANGED <<mgr, env, sp, passes, healthy, sch, cat, gcs, svc>>

Next ==
    \/ \E t \in Clients : ClientCall(t, MaxCalls)
    \/ \E t \in Clients : ManagerStep(t)
    \/ EnvStep(MaxLines)

Spec == Init /\ [][Next]_vars

NextSeq ==
    \/ ClientCall("c1", SeqMaxCalls)
    \/ ManagerStep("c1")
    \/ EnvStep(SeqMaxLines)

SpecSeq == Init /\ [][NextSeq]_vars

\* ------------------------------------------------------ ScreenshotProcessor
\* How one call of process_screenshot went: "ok" when every external call
\* succeeded, else the first one that did not.
\*   upload     gcs_utils.upload_file returned False
\*   copy       os.makedirs / shutil.copy2 of the local mirror raised
\*   list       get_recent_screenshot_urls caught an error and returned []
\*   stitch     os.makedirs / process_images raised
\*   get_status GET /api/stream/{id} answered with a non-2xx status
\*   get_raise  that GET, or reading its payload, raised
\*   no_sops    the stream has no SOP
\*   vision     the SOP lookup, the service's configuration or the model failed
\*   post       the POST to /api/analysis failed
Outcomes == {"ok", "upload", "copy", "list", "stitch", "get_status",
             "get_raise", "no_sops", "vision", "post"}

\* if grid_rows * grid_cols != self.screenshots_per_grid: adapt
AdaptedPerGrid(R, C, spg) == IF R * C # spg THEN R * C ELSE spg

Uploaded(frame, o) == frame /\ o # "upload"
\* variant of Counted that counts before the upload is tested (sensitivity of C11)
CountedUnlessCopy(frame, o) == frame /\ o # "copy"
\* the increment is reached: the frame exists, upload and local copy succeeded
Counted(frame, o) == frame /\ o \notin {"upload", "copy"}

\* len(recent_screenshot_urls) for a listing of a store holding n blobs
RecentUrls(n, want, o) == IF o = "list" THEN 0 ELSE IF n < want THEN n ELSE want

\* variant of Stitched that does not test the number of URLs (sensitivity of C27)
StitchedAnyway(n, spg, o) == o # "stitch"
\* _create_grid, by how far it got
Stitched(n, spg, o) == RecentUrls(n, spg, o) = spg /\ o # "stitch"
\* analyze_grid_with_gemini is called: the GET succeeded and named a SOP
AnalysisReached(n, spg, o) ==
    Stitched(n, spg, o) /\ o \notin {"get_status", "get_raise", "no_sops"}

\* stream_data['sops'] as _create_grid sees it: "unknown" when the grid was
\* not built or the GET did not succeed
SopsOf(n, spg, o) ==
    IF ~Stitched(n, spg, o) \/ o \in {"get_status", "get_raise"} THEN "unknown"
    ELSE IF o = "no_sops" THEN "none" ELSE "some"

\* class GeminiService defines analyze_screenshot and no analyze_image_with_sop:
\* the attribute lookup in analyze_grid_with_gemini raises AttributeError
AnalyzeImageWithSopDefined == FALSE

\* analyze_grid_with_gemini: "raised", or the analysis record was "posted", or
\* its POST failed ("post_failed", logged and not raised)
AnalysisResult(n, spg, o) ==
    IF ~AnalysisReached(n, spg, o) THEN "none"
    ELSE IF o = "vision" \/ ~AnalyzeImageWithSopDefined THEN "raised"
    ELSE IF o = "post" THEN "post_failed"
    ELSE "posted"

\* a POST to /api/analysis is made
Analysed(n, spg, o) == AnalysisResult(n, spg, o) \in {"posted", "post_failed"}
\* variant of CreateGridResult that fails when the analysis raised (sensitivity of C12)
CreateGridStrict(n, spg, o) ==
    Stitched(n, spg, o) /\ o # "get_status" /\ AnalysisResult(n, spg, o) # "raised"
\* the value _create_grid returns: False only when the grid was not built or
\* the GET answered with an error status
CreateGridResult(n, spg, o) == Stitched(n, spg, o) /\ o # "get_status"

\* variant of Dispatches with a strict test (sensitivity of C37)
DispatchesLate(count, spg) == count + 1 > spg
\* the threshold test after "+= 1"
Dispatches(count, spg) == count + 1 >= spg
\* variant of CountAfter that resets only after a grid was built (sensitivity of C8)
CountAfterSuccess(count, spg, gridOk) ==
    IF count + 1 >= spg /\ gridOk THEN 0 ELSE count + 1
\* the counter after "+= 1": reset to 0 before _create_grid is called
CountAfter(count, spg, gridOk) == IF Dispatches(count, spg) THEN 0 ELSE count + 1

ProcessResult(frame, o, count, spg, n) ==
    /\ Counted(frame, o)
    /\ Dispatches(count, spg) => CreateGridResult(n, spg, o)

ProcessScreenshot(s, R, C, frame, o) ==
    LET spg == IF frame THEN AdaptedPerGrid(R, C, screenshots_per_grid)
               ELSE screenshots_per_grid
        n == IF Uploaded(frame, o) THEN store[s] + 1 ELSE store[s]
        count == screenshot_counts[s]
        counted == Counted(frame, o)
        dispatch == counted /\ Dispatches(count, spg)
        stitched == dispatch /\ Stitched(n, spg, o)
        posted == dispatch /\ Analysed(n, spg, o)
        gridOk == dispatch /\ CreateGridResult(n, spg, o)
        up == IF Uploaded(frame, o) THEN 1 ELSE 0
        b == obs[s] IN
    /\ screenshots_per_grid' = spg
    /\ store' = [store EXCEPT ![s] = n]
    /\ screenshot_counts' = [screenshot_counts EXCEPT ![s] =
           IF counted THEN CountAfter(count, spg, gridOk) ELSE count]
    /\ obs' = [obs EXCEPT ![s] =
           [ticks |-> b.ticks + 1,
            uploads |-> b.uploads + up,
            grids |-> b.grids + (IF stitched THEN 1 ELSE 0),
            posts |-> b.posts + (IF posted THEN 1 ELSE 0),
            dispatches |-> b.dispatches + (IF dispatch THEN 1 ELSE 0),
            since |-> IF dispatch THEN 0 ELSE b.since + up,
            gap |-> IF dispatch /\ b.dispatches > 0 THEN b.since + up ELSE b.gap,
            clean |-> b.clean /\ frame /\ o = "ok",
            last |-> IF ~dispatch THEN "none"
                     ELSE IF gridOk THEN "built" ELSE "failed",
            copied |-> counted,
            ret |-> IF ProcessResult(frame, o, count, spg, n)
                    THEN "True" ELSE "False",
            analysis |-> IF dispatch THEN AnalysisResult(n, spg, o)
                         ELSE "none",
            urls |-> IF dispatch THEN RecentUrls(n, spg, o) ELSE -1,
            sops |-> IF dispatch THEN SopsOf(n, spg, o) ELSE "unknown",
            ok |-> frame /\ o = "ok",
            frame |-> frame]]

\* ------------------------------------------------------- the scheduler jobs
\* get_streams(): the streams of the registry
Catalog == [i \in 1 .. NumStreams |-> i]

JobLoop(t, entry, back) ==
    IF loc[t].todo = <<>>
    THEN /\ pc' = [pc EXCEPT ![t] = "idle"]
         /\ loc' = [loc EXCEPT ![t] = LocInit]
         /\ UNCHANGED stack
    ELSE /\ loc' = [loc EXCEPT ![t].sid = Head(loc[t].todo),
                               ![t].todo = Tail(loc[t].todo)]
         /\ Call(t, entry, back)

\* verify_streams: for each stream, status; if not running, stop, sleep, start
VerifyBegin(t) ==
    /\ pc[t] = "idle"
    /\ loc' = [loc EXCEPT ![t].todo = Catalog]
    /\ Goto(t, "verify_loop")
    /\ UNCHANGED <<mgr, env, rv, sp, drv, sch, cat, gcs, svc>>

VerifyLoop(t) ==
    /\ pc[t] = "verify_loop"
    /\ JobLoop(t, "stat_read", "verify_status")
    /\ UNCHANGED <<mgr, env, rv, sp, drv, sch, cat, gcs, svc>>

\* variant of NotRunning that lets every status but "error" pass (sensitivity of C26)
InError(st) == st.status = "error"
\* if status["status"] != "running"
NotRunning(st) == st.status # "running"

VerifyStatus(t) ==
    /\ pc[t] = "verify_status"
    /\ IF NotRunning(rv[t].stat)
       THEN Call(t, "stop_pop", "verify_restart")
       ELSE Goto(t, "verify_loop")
    /\ UNCHANGED <<mgr, env, loc, rv, sp, drv, sch, cat, gcs, svc>>

VerifyRestart(t) ==
    /\ pc[t] = "verify_restart"
    /\ Call(t, "start_reserve", "verify_loop")
    /\ UNCHANGED <<mgr, env, loc, rv, sp, drv, sch, cat, gcs, svc>>

VerifyJob(t) ==
    VerifyBegin(t) \/ VerifyLoop(t) \/ VerifyStatus(t) \/ VerifyRestart(t)

\* screenshots: for each stream, status; if running, latest frame; if there is
\* one, process_screenshot; an exception of get_latest_frame is caught by the
\* loop body's "except Exception" and the loop goes on
ShotsBegin(t) ==
    /\ pc[t] = "idle"
    /\ passes < MaxPasses
    /\ passes' = passes + 1
    /\ loc' = [loc EXCEPT ![t].todo = Catalog]
    /\ Goto(t, "shots_loop")
    /\ UNCHANGED <<mgr, env, rv, sp, calls, healthy, sch, cat, gcs, svc>>

ShotsLoop(t) ==
    /\ pc[t] = "shots_loop"
    /\ JobLoop(t, "stat_read", "shots_status")
    /\ UNCHANGED <<mgr, env, rv, sp, drv, sch, cat, gcs, svc>>

ShotsStatus(t) ==
    /\ pc[t] = "shots_status"
    /\ IF NotRunning(rv[t].stat)
       THEN Goto(t, "shots_loop")
       ELSE Call(t, "frame_read", "shots_frame")
    /\ UNCHANGED <<mgr, env, loc, rv, sp, drv, sch, cat, gcs, svc>>

ShotsFrame(t) ==
    /\ pc[t] = "shots_frame"
    /\ IF rv[t].val \in {"None", "raised"}
       THEN UNCHANGED sp
       ELSE \E o \in Outcomes :
               ProcessScreenshot(loc[t].sid, GRID_ROWS, GRID_COLS,
                                 dirs[rv[t].dir].exists, o)
    /\ rv' = [rv EXCEPT ![t] = RvInit]
    /\ Goto(t, "shots_loop")
    /\ UNCHANGED <<mgr, env, loc, drv, sch, cat, gcs, svc>>

ShotsJob(t) ==
    ShotsBegin(t) \/ ShotsLoop(t) \/ ShotsStatus(t) \/ ShotsFrame(t)

\* From here on the transcoder can be launched and verified.
BecomeHealthy ==
    /\ ~healthy
    /\ healthy' = TRUE
    /\ UNCHANGED <<mgr, env, thr, sp, calls, passes, sch, cat, gcs, svc>>

\* The transcoders of this specification write nothing to stderr: the jobs
\* read the rings only to fill the text of a synthesized snapshot.
EnvQuiet ==
    /\ \E p \in ProcIds : EnvCrash(p) \/ EnvWrite(p) \/ ReaderEOF(p)
    /\ UNCHANGED <<sp, drv, sch, cat, gcs, svc>>

NextCron ==
    \/ VerifyJob("verify")
    \/ ManagerStep("verify")
    \/ ShotsJob("shots")
    \/ ManagerStep("shots")
    \/ FrameStep("shots")
    \/ EnvQuiet
    \/ BecomeHealthy

\* The scheduler keeps running both jobs and the operating system keeps running
\* their threads, the transcoders and the stderr readers.
FairCron ==
    /\ WF_vars(VerifyJob("verify") \/ ManagerStep("verify"))
    /\ WF_vars(ManagerStep("shots") \/ FrameStep("shots")
               \/ (ShotsJob("shots") /\ pc["shots"] # "idle"))
    /\ WF_vars(\E p \in ProcIds : EnvWrite(p) /\ UNCHANGED <<sp, drv, sch, cat, gcs, svc>>)
    /\ WF_vars(\E p \in ProcIds : ReaderEOF(p) /\ UNCHANGED <<sp, drv, sch, cat, gcs, svc>>)

SpecCron == Init /\ [][NextCron]_vars /\ FairCron

\* ------------------------------------------- capture ticks of a single stream
\* the calls of process_screenshot made so far, over all streams
TotalTicks ==
    LET sum[i \in 0 .. NumStreams] ==
            IF i = 0 THEN 0 ELSE sum[i - 1] + obs[i].ticks
    IN sum[NumStreams]

ShotsTick(s) ==
    /\ TotalTicks < MaxTicks
    /\ \E o \in Outcomes : \E frame \in BOOLEAN :
          ProcessScreenshot(s, GRID_ROWS, GRID_COLS, frame, o)
    /\ UNCHANGED <<mgr, env, thr, drv, sch, cat, gcs, svc>>

NextShots == \E s \in StreamIds : ShotsTick(s)

SpecShots == Init /\ [][NextShots]_vars


\* ------------------------------------------------- the scheduler's job runs
\* register_cron_jobs adds the interval jobs 'verify_streams' and
\* 'screenshots' to a BackgroundScheduler. When a job's interval elapses the
\* scheduler submits a run to its thread pool unless the job has max_instances
\* runs in progress; a run is the job function's pass over get_streams().
\* add_job is called without max_instances: the scheduler's default applies
MAX_INSTANCES == 1
\* get_streams(): the list the pass iterates over
Registry == [i \in RegistryIds |-> i]

\* a run: where it is, the streams still to handle, the one being handled,
\* the counter value read, the streams handled and those whose handling raised
NewRun == [at |-> "loop", todo |-> Registry, sid |-> 0, tmp |-> 0,
           handled |-> <<>>, caught |-> {}]

\* the run at position i of job j is replaced by r
SetRun(j, i, r) == [instances EXCEPT ![j][i] = r]

\* variant of MaxInstancesReached for max_instances = 2 (sensitivity of C14)
TwoInstancesReached(j) == Len(instances[j]) >= 2
\* variant of MaxInstancesReached for a job without a limit (sensitivity of C15)
InstancesUnlimited(j) == FALSE
\* the executor refuses a run of job j
MaxInstancesReached(j) == Len(instances[j]) >= MAX_INSTANCES

\* The interval of job j has elapsed.
Due(j) ==
    /\ joblog[j].due < MaxDue
    /\ IF MaxInstancesReached(j)
       THEN /\ joblog' = [joblog EXCEPT ![j].due = @ + 1, ![j].dropped = @ + 1]
            /\ UNCHANGED instances
       ELSE /\ joblog' = [joblog EXCEPT ![j].due = @ + 1]
            /\ instances' = [instances EXCEPT ![j] = Append(@, NewRun)]
    /\ UNCHANGED <<counters, pipeline, cat, gcs, svc>>

\* variant of AfterStream in which an exception leaves the loop (sensitivity of C13)
AfterStreamUncaught(r, e) ==
    [r EXCEPT !.at = IF e = "raised" THEN "escaped" ELSE "loop",
              !.handled = Append(@, r.sid),
              !.caught = IF e = "raised" THEN @ \cup {r.sid} ELSE @,
              !.sid = 0, !.tmp = 0]
\* the end of the loop body for r.sid, reached by falling through, by
\* "continue" or through "except Exception": the loop goes on
AfterStream(r, e) ==
    [r EXCEPT !.at = "loop", !.handled = Append(@, r.sid),
              !.caught = IF e = "raised" THEN @ \cup {r.sid} ELSE @,
              !.sid = 0, !.tmp = 0]

\* for stream in streams
RunLoop(j, i) ==
    LET r == instances[j][i] IN
    /\ r.at = "loop"
    /\ instances' = SetRun(j, i,
          IF r.todo = <<>> THEN [r EXCEPT !.at = "return"]
          ELSE [r EXCEPT !.at = "body", !.sid = Head(r.todo),
                         !.todo = Tail(r.todo)])
    /\ UNCHANGED <<joblog, counters, pipeline, cat, gcs, svc>>

\* the job function returns, or an exception leaves it: the run is over
RunEnd(j, i) ==
    LET r == instances[j][i] IN
    /\ r.at \in {"return", "escaped"}
    /\ instances' = [instances EXCEPT ![j] =
          SubSeq(@, 1, i - 1) \o SubSeq(@, i + 1, Len(@))]
    /\ UNCHANGED <<joblog, counters, pipeline, cat, gcs, svc>>

\* verify_streams, the body of the loop: the stream is running, or it is
\* stopped and started again, or one of the calls raised
VerifyBody(i) ==
    LET r == instances["verify_streams"][i] IN
    /\ r.at = "body"
    /\ \E e \in {"running", "restarted", "raised"} :
          instances' = SetRun("verify_streams", i, AfterStream(r, e))
    /\ UNCHANGED <<joblog, counters, pipeline, cat, gcs, svc>>

\* screenshots, the body of the loop up to process_screenshot's increment:
\* the stream is not running or has no frame ("skipped"), a call raised,
\* process_screenshot returned False before it counted ("failed"), or it
\* goes on to count the screenshot
ShotsBody(i) ==
    LET r == instances["screenshots"][i] IN
    /\ r.at = "body"
    /\ \/ \E e \in {"skipped", "raised", "failed"} :
             instances' = SetRun("screenshots", i, AfterStream(r, e))
       \/ instances' = SetRun("screenshots", i, [r EXCEPT !.at = "ps_read"])
    /\ UNCHANGED <<joblog, counters, pipeline, cat, gcs, svc>>

\* self.screenshot_counts[stream_id] += 1: the read
PsRead(i) ==
    LET r == instances["screenshots"][i] IN
    /\ r.at = "ps_read"
    /\ instances' = SetRun("screenshots", i,
          [r EXCEPT !.at = "ps_write", !.tmp = counters[r.sid].count])
    /\ UNCHANGED <<joblog, counters, pipeline, cat, gcs, svc>>

\* ... and the write
PsWrite(i) ==
    LET r == instances["screenshots"][i] IN
    /\ r.at = "ps_write"
    /\ counters' = [counters EXCEPT ![r.sid].count = r.tmp + 1,
                                    ![r.sid].made = @ + 1]
    /\ instances' = SetRun("screenshots", i, [r EXCEPT !.at = "ps_test"])
    /\ UNCHANGED <<joblog, pipeline, cat, gcs, svc>>

\* the threshold test, and the reset before _create_grid
PsTest(i) ==
    LET r == instances["screenshots"][i] IN
    /\ r.at = "ps_test"
    /\ IF counters[r.sid].count >= GRID_ROWS * GRID_COLS
       THEN /\ counters' = [counters EXCEPT ![r.sid].count = 0,
                                            ![r.sid].made = 0]
            /\ instances' = SetRun("screenshots", i, [r EXCEPT !.at = "ps_grid"])
       ELSE /\ instances' = SetRun("screenshots", i, AfterStream(r, "counted"))
            /\ UNCHANGED counters
    /\ UNCHANGED <<joblog, pipeline, cat, gcs, svc>>

\* _create_grid returns True or False
PsGrid(i) ==
    LET r == instances["screenshots"][i] IN
    /\ r.at = "ps_grid"
    /\ \E e \in {"grid", "grid_failed"} :
          instances' = SetRun("screenshots", i, AfterStream(r, e))
    /\ UNCHANGED <<joblog, counters, pipeline, cat, gcs, svc>>

NextSched ==
    \/ \E j \in JobIds : Due(j)
    \/ \E j \in JobIds : \E i \in 1 .. Len(instances[j]) : RunLoop(j, i)
    \/ \E j \in JobIds : \E i \in 1 .. Len(instances[j]) : RunEnd(j, i)
    \/ \E i \in 1 .. Len(instances["verify_streams"]) : VerifyBody(i)
    \/ \E i \in 1 .. Len(instances["screenshots"]) : ShotsBody(i)
    \/ \E i \in 1 .. Len(instances["screenshots"]) : PsRead(i)
    \/ \E i \in 1 .. Len(instances["screenshots"]) : PsWrite(i)
    \/ \E i \in 1 .. Len(instances["screenshots"]) : PsTest(i)
    \/ \E i \in 1 .. Len(instances["screenshots"]) : PsGrid(i)

\* The counters of the streams are those some earlier passes left.
InitSched ==
    /\ InitPipeline
    /\ InitScheduler
    /\ InitCatalog
    /\ InitBucket
    /\ InitServices
    /\ adapter = [result |-> "none"]
    /\ \E c \in {0, GRID_ROWS * GRID_COLS - 1} :
          counters = [s \in RegistryIds |-> [count |-> c, made |-> c]]

SpecSched ==
    InitSched /\ [][NextSched]_vars

\* the runs of job j in progress
RunsOf(j) == {instances[j][i] : i \in 1 .. Len(instances[j])}

\* ------------------------------------------------- get_streams and its cache
\* The clock advances by half the TTL at a time, MaxClock times at most.
ClockStep == STREAMS_CACHE_TTL \div 2
\* what GET /api/streams can do: answer 2xx with a 'streams' key ("ok"), with
\* an error status, with a payload without the key, or raise ConnectionError,
\* Timeout, another RequestException or any other exception
FetchOutcomes == {"ok", "status", "no_key", "connection", "timeout",
                  "request", "other"}
\* the lists of streams the registry can answer with
Payloads == {<<>>, <<1>>, <<1, 2>>}

\* variant of CacheValid that holds at an age of exactly the TTL
\* (sensitivity of C29)
CacheValidInclusive(c, t) == (t - c.last_updated) <= c.ttl
\* the TTL test: the cached list is still valid at time t
CacheValid(c, t) == (t - c.last_updated) < c.ttl

\* variant of Refreshed that stamps the cache on a failed refresh too
\* (sensitivity of C18)
RefreshedStamped(c, t, o, payload) ==
    IF o = "ok" THEN [c EXCEPT !.streams = payload, !.last_updated = t]
    ELSE [c EXCEPT !.last_updated = t]
\* the cache after a refresh attempted at time t: written only after a 2xx
\* answer that has the 'streams' key
Refreshed(c, t, o, payload) ==
    IF o = "ok" THEN [c EXCEPT !.streams = payload, !.last_updated = t]
    ELSE c

\* One call of get_streams.
GetStreams ==
    \E o \in FetchOutcomes : \E payload \in Payloads :
        LET c == [streams_cache EXCEPT
                     !.ttl = IF @ = 0 THEN STREAMS_CACHE_TTL ELSE @]
            valid == CacheValid(c, now)
            after == IF valid THEN c ELSE Refreshed(c, now, o, payload) IN
        /\ fetched.calls < MaxFetches
        /\ streams_cache' = after
        /\ fetched' = [calls |-> fetched.calls + 1,
                       requested |-> ~valid,
                       outcome |-> IF valid THEN "none" ELSE o,
                       ret |-> after.streams]
        /\ UNCHANGED <<now, pipeline, sch, gcs, svc>>

\* time.time() advances
ClockTick ==
    /\ now < STREAMS_CACHE_TTL + MaxClock * ClockStep
    /\ now' = now + ClockStep
    /\ UNCHANGED <<streams_cache, fetched, pipeline, sch, gcs, svc>>

NextCache == GetStreams \/ ClockTick

SpecCache == Init /\ [][NextCache]_vars

\* ------------------------------------- the listing a grid is stitched from
\* process_screenshot names a blob screenshots/{id}-{name}-{timestamp}.jpg,
\* with datetime.now() to the second as timestamp; the object store stamps
\* it with time_created. A blob is [fields, created]: the fields of its file
\* name that "-" separates (the timestamp counted as one), and the order of
\* its creation.
Stamps == 1 .. MaxStamp

\* datetime.strptime(s, '%y-%m-%d--%H--%M--%S') succeeds: s is a timestamp
\* and nothing else
Strptime(s) == Len(s) = 1 /\ s[1] \in Stamps

\* get_timestamp: filename.split('-', 1)[1].rsplit('.', 1)[0], what follows
\* the first "-", is parsed; time_created when parsing raised
GetTimestamp(b) ==
    IF Strptime(Tail(b.fields))
    THEN [kind |-> "parsed", at |-> Tail(b.fields)[1]]
    ELSE [kind |-> "time_created", at |-> b.created]

\* sorted(blobs, key=get_timestamp): ascending, for keys of one kind that
\* differ from one another
RECURSIVE Sorted(_)
Sorted(blobs) ==
    IF blobs = {} THEN <<>>
    ELSE LET first == CHOOSE b \in blobs :
                         \A c \in blobs : GetTimestamp(b).at <= GetTimestamp(c).at
         IN <<first>> \o Sorted(blobs \ {first})

\* variant of MostRecent that keeps the blobs with the least keys
\* (sensitivity of C30)
LeastRecent(blobs, count) ==
    LET all == Sorted(blobs) IN
    IF Len(all) <= count THEN all ELSE SubSeq(all, 1, count)
\* sorted(..., reverse=True)[:count], then sorted again: the count blobs with
\* the greatest keys, in ascending order
MostRecent(blobs, count) ==
    LET all == Sorted(blobs) IN
    IF Len(all) <= count THEN all
    ELSE SubSeq(all, Len(all) - count + 1, Len(all))

\* stitch_images places image i at row i // grid_cols, column i % grid_cols
CellOf(i, cols) == [row |-> (i - 1) \div cols, col |-> (i - 1) % cols]

\* the logical timestamp embedded in the blob's key
KeyStamp(b) == b.fields[3]

\* process_screenshot uploads a frame at wall-clock time ts: a blob of that
\* name is replaced
UploadBlob(ts) ==
    /\ uploadsMade < MaxUploads
    /\ uploadsMade' = uploadsMade + 1
    /\ bucket' = {b \in bucket : KeyStamp(b) # ts}
                    \cup {[fields |-> <<1, "cam", ts>>,
                           created |-> uploadsMade + 1]}
    /\ UNCHANGED <<grid, pipeline, sch, cat, adapter, svc>>

\* _create_grid: the listing has screenshots_per_grid urls and is stitched
CreateGrid ==
    LET urls == MostRecent(bucket, GRID_ROWS * GRID_COLS) IN
    /\ Len(urls) = GRID_ROWS * GRID_COLS
    /\ grid' = [i \in 1 .. Len(urls) |->
                   [cell |-> CellOf(i, GRID_COLS), stamp |-> KeyStamp(urls[i])]]
    /\ UNCHANGED <<bucket, uploadsMade, pipeline, sch, cat, adapter, svc>>

\* the streams that have blobs in the bucket
ListedStreams == {1, 2}

\* bucket.list_blobs(prefix=f"screenshots/{stream_id}-")
ListBlobs(s) == {b \in bucket : b.fields[1] = s}

\* process_screenshot uploads a frame of stream s at wall-clock time ts
UploadFor(s, ts) ==
    /\ uploadsMade < MaxListed
    /\ uploadsMade' = uploadsMade + 1
    /\ bucket' = {b \in bucket : ~(b.fields[1] = s /\ KeyStamp(b) = ts)}
                    \cup {[fields |-> <<s, "cam", ts>>,
                           created |-> uploadsMade + 1]}
    /\ UNCHANGED <<listing, exListing>>

\* get_recent_screenshot_urls(stream_id, count)
GetRecentScreenshotUrls(s, count) ==
    /\ listing' = [sid |-> s, count |-> count,
                   urls |-> MostRecent(ListBlobs(s), count)]
    /\ UNCHANGED <<bucket, uploadsMade, exListing>>

NextListing ==
    \/ \E s \in ListedStreams : \E ts \in 1 .. MaxListStamp : UploadFor(s, ts)
    \/ \E s \in ListedStreams : \E count \in 1 .. MaxCount :
          GetRecentScreenshotUrls(s, count)

SpecListing == Init /\ [][NextListing]_vars

NextGrid == (\E ts \in Stamps : UploadBlob(ts)) \/ CreateGrid

SpecGrid == Init /\ [][NextGrid]_vars

\* ------------------------------------------------------ the vision adapter
\* The SOP's structured_output is a schema validate_structured_output
\* accepts. The model tells apart objects with properties among "p" and "q",
\* each a scalar or an array of scalars; a JSON value is written as its text.
PropSchemas ==
    {[type |-> t, items |-> "none"] : t \in {"boolean", "string"}}
       \cup {[type |-> "array", items |-> t] : t \in {"boolean", "string"}}

Schemas ==
    UNION {{[type |-> "object", properties |-> f, required |-> r] :
               f \in [P -> PropSchemas], r \in SUBSET P} :
             P \in SUBSET {"p", "q"}}

\* the JSON values of a property's type
ValuesOf(ps) ==
    CASE ps.type = "boolean" -> {"true", "false"}
      [] ps.type = "string" -> {"'s'"}
      [] ps.type = "array" /\ ps.items = "boolean" -> {"[]", "[true]"}
      [] ps.type = "array" /\ ps.items = "string" -> {"[]", "['s']"}

\* value v satisfies schema S: every required property present, types matching
Satisfies(v, S) ==
    /\ S.required \subseteq DOMAIN v
    /\ DOMAIN v \subseteq DOMAIN S.properties
    /\ \A n \in DOMAIN v : v[n] \in ValuesOf(S.properties[n])

\* the responses of the model that are valid for S
ValidResponses(S) ==
    UNION {{v \in [P -> {"true", "false", "'s'", "[]", "[true]", "['s']"}] :
               Satisfies(v, S)} :
             P \in SUBSET DOMAIN S.properties}

NoOutput == [written |-> FALSE, value |-> [n \in {} |-> ""]]

\* analyze_grid_with_gemini for a SOP whose structured_output is adapter.sop:
\* gemini_service.analyze_image_with_sop(grid_path, sop) is looked up on a
\* GeminiService; were it defined, its result would be posted as the analysis
\* record's output and returned
AnalyzeGrid ==
    /\ adapter.result = "pending"
    /\ adapter' = [adapter EXCEPT
          !.result = IF AnalyzeImageWithSopDefined THEN "returned" ELSE "raised",
          !.output = IF AnalyzeImageWithSopDefined
                     THEN [written |-> TRUE, value |-> adapter.response]
                     ELSE NoOutput]
    /\ UNCHANGED <<pipeline, sch, cat, bucket, uploadsMade, grid, svc>>

\* The stream's SOP has any valid schema, and the model would answer with any
\* response valid for it.
InitAdapter ==
    /\ InitPipeline
    /\ InitScheduler
    /\ InitCatalog
    /\ InitBucket
    /\ InitServices
    /\ counters = [s \in RegistryIds |-> [count |-> 0, made |-> 0]]
    /\ \E S \in Schemas : \E v \in ValidResponses(S) :
          adapter = [sop |-> S, response |-> v, result |-> "pending",
                     output |-> NoOutput]

SpecAdapter == InitAdapter /\ [][AnalyzeGrid]_vars

\* ------------------------------------- GeminiService.analyze_screenshot
\* Time is counted in steps of half the timeout, so that a chunk can arrive
\* before the deadline, exactly at it, and after it.
VisionStep == TIMEOUT_SECONDS \div 2

\* if time.time() - start_time > self.config.timeout_seconds
DeadlinePassed(e) == e > TIMEOUT_SECONDS

\* an exception: its class, and whether str(e).lower() holds "deprecated"
Exc(type, deprecated) == [type |-> type, deprecated |-> deprecated]
\* class GeminiTimeoutError(GeminiAnalysisError)
IsOwnKind(e) ==
    e.type \in {"GeminiConfigError", "GeminiAnalysisError", "GeminiTimeoutError"}
\* _read_image: except Exception as e: raise GeminiAnalysisError(...)
ReadImageExcept(e) == Exc("GeminiAnalysisError", e.deprecated)
\* except Exception as api_error: GeminiConfigError for a text that mentions
\* deprecation, else raise
ApiExcept(e) == IF e.deprecated THEN Exc("GeminiConfigError", TRUE) ELSE e
\* variant of OuterExcept that re-raises whatever it caught (sensitivity of C33)
OuterReraise(e) == e
\* except Exception as e: the service's own kinds are re-raised, the others
\* wrapped as GeminiAnalysisError
OuterExcept(e) ==
    IF IsOwnKind(e) THEN e ELSE Exc("GeminiAnalysisError", e.deprecated)

\* what _validate_image and open() raise, by cause
ImageFailures ==
    [missing |-> Exc("GeminiAnalysisError", FALSE),
     not_image |-> Exc("GeminiAnalysisError", FALSE),
     unsupported |-> Exc("GeminiAnalysisError", FALSE),
     unreadable |-> Exc("OSError", FALSE)]
\* what the client library raises, by cause
ApiFailures ==
    [api_error |-> Exc("ClientError", FALSE),
     api_deprecated |-> Exc("ClientError", TRUE)]
\* what _parse_response raises, by cause: json.loads fails, or the JSON lacks
\* a field DecanterAnalysisResult reads
ParseFailures ==
    [not_json |-> Exc("GeminiAnalysisError", FALSE),
     missing_field |-> Exc("KeyError", FALSE)]

\* self._read_image(image_path) raises
VisionReadImage ==
    /\ vision.at = "idle"
    /\ \E c \in DOMAIN ImageFailures :
          vision' = [vision EXCEPT
                       !.at = "done", !.cause = c,
                       !.result = OuterExcept(ReadImageExcept(ImageFailures[c])).type]
    /\ UNCHANGED exVision

\* start_time = time.time(); generate_content_stream(...)
VisionIssue ==
    /\ vision.at = "idle"
    /\ \E n \in 1 .. MaxChunks :
          vision' = [NoCall EXCEPT !.at = "streaming", !.total = n]
    /\ UNCHANGED exVision

\* the thread is blocked in the iterator: time passes, nothing is tested
VisionWait ==
    /\ vision.at = "streaming"
    /\ vision.elapsed < MaxWaits * VisionStep
    /\ vision' = [vision EXCEPT !.elapsed = @ + VisionStep]
    /\ UNCHANGED exVision

\* one iteration of "for chunk in response_chunks": the timeout test, then
\* full_output += chunk.text
VisionChunk ==
    /\ vision.at = "streaming"
    /\ vision.got < vision.total
    /\ vision' =
          IF DeadlinePassed(vision.elapsed)
          THEN [vision EXCEPT
                  !.at = "done", !.cause = "timeout",
                  !.result = OuterExcept(ApiExcept(
                                 Exc("GeminiTimeoutError", FALSE))).type]
          ELSE [vision EXCEPT !.got = @ + 1,
                              !.fullAt = IF vision.got + 1 = vision.total
                                         THEN vision.elapsed ELSE @]
    /\ UNCHANGED exVision

\* the iterator is exhausted: _parse_response returns the result, or raises
\* GeminiAnalysisError for text that is not JSON
VisionParse ==
    /\ vision.at = "streaming"
    /\ vision.got = vision.total
    /\ \/ vision' = [vision EXCEPT !.at = "done", !.result = "value"]
       \/ \E c \in DOMAIN ParseFailures :
             vision' = [vision EXCEPT
                          !.at = "done", !.cause = c,
                          !.result = OuterExcept(ApiExcept(ParseFailures[c])).type]
    /\ UNCHANGED exVision

\* the call or the iterator raises (the connection broke, the model is
\* deprecated): the two except clauses decide what the caller sees
VisionStreamError ==
    /\ vision.at = "streaming"
    /\ vision.got < vision.total
    /\ \E c \in DOMAIN ApiFailures :
          vision' = [vision EXCEPT
                       !.at = "done", !.cause = c,
                       !.result = OuterExcept(ApiExcept(ApiFailures[c])).type]
    /\ UNCHANGED exVision

NextVision ==
    \/ VisionReadImage
    \/ VisionIssue
    \/ VisionWait
    \/ VisionChunk
    \/ VisionParse
    \/ VisionStreamError

SpecVision == Init /\ [][NextVision]_vars

\* ------------------------------------------ video_routes.validate_rtsp_url
\* A URL is a sequence of characters. The two patterns are matched as re.match
\* matches them: each piece of a pattern takes the set of positions a match
\* can have reached and gives the set of positions it can reach next.
Alnum == {"a", "b", "c", "h", "p", "r", "s", "t", "u", "1", "2"}  \* [a-zA-Z0-9]
Digit == {"1", "2"}                                               \* \d
UserChar == Alnum \cup {".", "_", "~", "%", "-"}                  \* [a-zA-Z0-9._~%-]
HexColon == {":", "a", "b", "c", "1", "2"}                        \* [:a-fA-F0-9]
Whitespace == {" ", "\n"}                                         \* \s

At(s, i) == IF i \in 1 .. Len(s) THEN s[i] ELSE ""
AllIn(s, i, j, C) == \A k \in i .. j : s[k] \in C

\* a literal character
Lit(s, I, c) == {i + 1 : i \in {k \in I : At(s, k) = c}}
\* [C]+
Plus(s, I, C) == {j \in 2 .. Len(s) + 1 : \E i \in I : i < j /\ AllIn(s, i, j - 1, C)}
\* [C]{lo,hi}
Repeat(s, I, C, lo, hi) ==
    {j \in 2 .. Len(s) + 1 :
        \E i \in I : j - i \in lo .. hi /\ AllIn(s, i, j - 1, C)}

\* ^rtsp://
RtspScheme == <<"r", "t", "s", "p", ":", "/", "/">>
SchemeMatch(s) ==
    IF Len(s) >= Len(RtspScheme) /\ SubSeq(s, 1, Len(RtspScheme)) = RtspScheme
    THEN {Len(RtspScheme) + 1} ELSE {}

\* [a-zA-Z0-9](?:[a-zA-Z0-9-]*[a-zA-Z0-9])?
Label(s, I) ==
    {j \in 2 .. Len(s) + 1 :
        \E i \in I : /\ i < j
                     /\ s[i] \in Alnum
                     /\ s[j - 1] \in Alnum
                     /\ AllIn(s, i, j - 1, Alnum \cup {"-"})}

\* (?:label\.)+
RECURSIVE DottedLabels(_, _)
DottedLabels(s, I) ==
    LET n == Lit(s, Label(s, I), ".") IN
    IF n = {} THEN {} ELSE n \cup DottedLabels(s, n)

\* (?::\d+)?
Port(s, I) == I \cup Plus(s, Lit(s, I, ":"), Digit)

\* (?:/[^/\s]+)*
RECURSIVE Segments(_, _)
Segments(s, I) ==
    LET n == {j \in 2 .. Len(s) + 1 :
                 \E i \in Lit(s, I, "/") :
                    /\ i < j
                    /\ \A k \in i .. j - 1 : s[k] \notin {"/"} \cup Whitespace} IN
    IF n \subseteq I THEN I ELSE Segments(s, I \cup n)

\* /?
TrailingSlash(s, I) == I \cup Lit(s, I, "/")

\* $: at the end of the string, and also just before a newline that ends it
AtEnd(s, I) ==
    \/ Len(s) + 1 \in I
    \/ Len(s) \in I /\ At(s, Len(s)) = "\n"

\* (?::\d+)?(?:/[^/\s]+)*/?$
PortPathEnd(s, I) == AtEnd(s, TrailingSlash(s, Segments(s, Port(s, I))))

\* rtsp_pattern
RtspPattern(s) ==
    PortPathEnd(s, Label(s, DottedLabels(s, SchemeMatch(s))))

\* \d{1,3}\.\d{1,3}\.\d{1,3}\.\d{1,3}
Octet(s, I) == Repeat(s, I, Digit, 1, 3)
Ipv4(s, I) ==
    Octet(s, Lit(s, Octet(s, Lit(s, Octet(s, Lit(s, Octet(s, I), ".")), ".")), "."))
\* \[[:a-fA-F0-9]+\]
Bracketed(s, I) == Lit(s, Plus(s, Lit(s, I, "["), HexColon), "]")

\* (?:[a-zA-Z0-9._~%-]+(?::[a-zA-Z0-9._~%-]+)?@)?
UserInfo(s, I) ==
    LET u == Plus(s, I, UserChar) IN
    I \cup Lit(s, u \cup Plus(s, Lit(s, u, ":"), UserChar), "@")

\* ip_rtsp_pattern
IpRtspPattern(s) ==
    LET h == UserInfo(s, SchemeMatch(s)) IN
    PortPathEnd(s, Ipv4(s, h) \cup Bracketed(s, h))

\* bool(re.match(rtsp_pattern, url) or re.match(ip_rtsp_pattern, url))
ValidateRtspUrl(url) == RtspPattern(url) \/ IpRtspPattern(url)

\* the URLs the check is run on, by their parts
Schemes == {RtspScheme, <<"h", "t", "t", "p", ":", "/", "/">>}
UserInfos == {<<>>, <<"u", ":", "p", "@">>}
DomainHosts == {<<"a", ".", "b">>, <<"a", "-", "1", ".", "b", ".", "c">>}
Ipv4Hosts == {<<"1", ".", "2", ".", "1", ".", "2">>,
              <<"1", "2", "1", ".", "2", ".", "1", ".", "1", "2">>}
OtherHosts == {<<>>, <<"a", " ", "b", ".", "c">>, <<"a", ".", "b", "\n">>,
               <<"a">>, <<"-", "a", ".", "b">>}
Ports == {<<>>, <<":", "1", "2">>}
Paths == {<<>>, <<"/">>, <<"/", "a">>, <<"/", "a", "/", "b">>}
Urls ==
    [scheme : Schemes, userinfo : UserInfos,
     host : DomainHosts \cup Ipv4Hosts \cup OtherHosts, port : Ports, path : Paths]
UrlOf(u) == u.scheme \o u.userinfo \o u.host \o u.port \o u.path

InitUrl ==
    /\ InitPipeline
    /\ InitScheduler
    /\ InitCatalog
    /\ InitBucket
    /\ adapter = [result |-> "none"]
    /\ counters = [s \in RegistryIds |-> [count |-> 0, made |-> 0]]
    /\ vision = NoCall
    /\ holder = "free"
    /\ prog = [t \in LockThreads |-> <<>>]
    /\ refresh = [j \in JobIds |-> NoRefresh]
    /\ wrote = "none"
    /\ listing = NoListing
    /\ InitStitcher
    /\ InitSchema
    /\ \E u \in Urls : rtsp = [parts |-> u, url |-> UrlOf(u), result |-> "none"]

\* if not validate_rtsp_url(rtsp_url) in the routes that add or change a stream
Validate ==
    /\ rtsp.result = "none"
    /\ rtsp' = [rtsp EXCEPT !.result =
                   IF ValidateRtspUrl(rtsp.url) THEN "True" ELSE "False"]
    /\ UNCHANGED exUrl

SpecUrl == InitUrl /\ [][Validate]_vars

\* ------------------------------------------ the manager's lock, step by step
\* Each method is the sequence of operations it performs on one of its paths:
\* "acquire" and "release" of self._lock, "map" for a read or a write of one
\* of the five dictionaries, "io" for what it does to processes, the file
\* system and the clock. line is the source line of the operation.
Acq(l) == [op |-> "acquire", what |-> "_lock", line |-> l]
Rel(l) == [op |-> "release", what |-> "_lock", line |-> l]
Map(m, l) == [op |-> "map", what |-> m, line |-> l]
Io(w, l) == [op |-> "io", what |-> w, line |-> l]

\* stop_stream
StopStreamOps ==
    <<Acq(171), Map("processes", 172), Map("temp_dirs", 173),
      Map("streams", 174), Map("status", 175), Map("ffmpeg_logs", 176),
      Rel(176), Io("killpg, wait, kill", 180), Io("isdir, rmtree", 187)>>

\* start_stream: the id is registered already
StartAlreadyOps == <<Acq(118), Map("streams", 119), Rel(120)>>
\* start_stream up to the call of _launch_ffmpeg
StartReserveOps ==
    <<Acq(118), Map("streams", 119), Map("streams", 121), Map("status", 122),
      Rel(122), Io("mkdtemp", 123), Acq(124), Map("temp_dirs", 125), Rel(125)>>
\* _launch_ffmpeg and _log_ffmpeg
LaunchOps ==
    <<Io("Popen", 82), Acq(91), Map("processes", 92), Map("ffmpeg_logs", 93),
      Rel(93), Io("Thread.start", 51)>>
\* _verify_hls
VerifyOps == <<Io("exists, listdir, open, sleep", 98)>>
\* start_stream: Popen raised OSError
StartOSErrorOps ==
    StartReserveOps \o <<Io("Popen", 82), Acq(129), Map("status", 130), Rel(130)>>
       \o StopStreamOps
\* start_stream: verification failed
StartTimeoutOps ==
    StartReserveOps \o LaunchOps \o VerifyOps
       \o <<Acq(134), Map("status", 135), Rel(135)>> \o StopStreamOps
\* start_stream: running
StartRunningOps ==
    StartReserveOps \o LaunchOps \o VerifyOps
       \o <<Acq(138), Map("status", 139), Rel(139)>>

\* get_stream_status: the id is unknown
StatusUnknownOps == <<Acq(143), Map("status", 144), Rel(145)>>
\* get_stream_status: the locked block, then poll()
StatusReadOps ==
    <<Acq(143), Map("status", 144), Map("status", 146), Map("processes", 147),
      Rel(147), Io("poll", 148)>>
\* variant of StatusExitedOps that keeps the lock until stop_stream has
\* returned (sensitivity of C24)
StatusExitedLockedOps ==
    <<Acq(143), Map("status", 144), Map("status", 146), Map("processes", 147),
      Io("poll", 148), Map("ffmpeg_logs", 149)>> \o StopStreamOps \o <<Rel(150)>>
\* get_stream_status: the process has exited
StatusExitedOps == StatusReadOps \o <<Map("ffmpeg_logs", 149)>> \o StopStreamOps

\* get_latest_frame
LatestFrameOps ==
    <<Acq(155), Map("temp_dirs", 156), Rel(156), Io("isdir", 157),
      Io("listdir", 159), Io("subprocess.run", 166)>>

\* stop_all over n registered streams
RECURSIVE Stops(_)
Stops(n) == IF n = 0 THEN <<>> ELSE StopStreamOps \o Stops(n - 1)
StopAllOps(n) == <<Acq(191), Map("streams", 192), Rel(192)>> \o Stops(n)

\* one iteration of reader() in _log_ffmpeg
ReaderOps ==
    <<Io("readline", 42), Acq(46), Map("ffmpeg_logs", 47),
      Map("ffmpeg_logs", 48), Rel(48)>>

MethodPaths ==
    {StopStreamOps, StartAlreadyOps, StartOSErrorOps, StartTimeoutOps,
     StartRunningOps, StatusUnknownOps, StatusReadOps, StatusExitedOps,
     LatestFrameOps} \cup {StopAllOps(n) : n \in 0 .. NumStreams}

NextOp(t) == Head(prog[t])
Advance(t) == prog' = [prog EXCEPT ![t] = Tail(@)]

\* a thread calls one of the public methods
LockCall(t) ==
    /\ prog[t] = <<>>
    /\ \E p \in MethodPaths : prog' = [prog EXCEPT ![t] = p]
    /\ UNCHANGED <<holder, exLock>>

\* the reader thread reads the next line
ReaderLoop ==
    /\ prog["reader"] = <<>>
    /\ prog' = [prog EXCEPT !["reader"] = ReaderOps]
    /\ UNCHANGED <<holder, exLock>>

\* with self._lock: threading.Lock is not reentrant, the thread waits until
\* the lock is free
Acquire(t) ==
    /\ prog[t] # <<>>
    /\ NextOp(t).op = "acquire"
    /\ holder = "free"
    /\ holder' = t
    /\ Advance(t)
    /\ UNCHANGED exLock

\* the end of the with block
Release(t) ==
    /\ prog[t] # <<>>
    /\ NextOp(t).op = "release"
    /\ holder' = IF holder = t THEN "free" ELSE holder
    /\ Advance(t)
    /\ UNCHANGED exLock

\* a read or a write of one of the dictionaries
Access(t) ==
    /\ prog[t] # <<>>
    /\ NextOp(t).op = "map"
    /\ Advance(t)
    /\ UNCHANGED <<holder, exLock>>

\* a process is launched, polled, signalled or waited for, the thread sleeps,
\* or the file system is touched
External(t) ==
    /\ prog[t] # <<>>
    /\ NextOp(t).op = "io"
    /\ Advance(t)
    /\ UNCHANGED <<holder, exLock>>

LockStep(t) == Acquire(t) \/ Release(t) \/ Access(t) \/ External(t)

NextLock ==
    \/ \E t \in Clients : LockCall(t)
    \/ ReaderLoop
    \/ \E t \in LockThreads : Acquire(t)
    \/ \E t \in LockThreads : Release(t)
    \/ \E t \in LockThreads : Access(t)
    \/ \E t \in LockThreads : External(t)

\* The operating system runs every thread, and a thread waiting for the lock
\* is not passed over for ever.
FairLock == \A t \in LockThreads : SF_vars(LockStep(t))

SpecLock == Init /\ [][NextLock]_vars /\ FairLock

\* ----------------------------------------------- a ring that fills and wraps
\* The manager after start_stream(1, url) has returned True: the stream is
\* registered and running, its transcoder is alive, its reader thread runs.
InitRunning ==
    /\ streams = <<[id |-> 1, url |-> RtspUrl(1)]>>
    /\ temp_dirs = [s \in StreamIds |-> IF s = 1 THEN 1 ELSE NoDir]
    /\ processes = [s \in StreamIds |-> IF s = 1 THEN 1 ELSE NoProc]
    /\ status = [s \in StreamIds |->
                    IF s = 1 THEN Stat("running", "None") ELSE StatAbsent]
    /\ ffmpeg_logs = [s \in StreamIds |-> IF s = 1 THEN EmptyRing ELSE NoRing]
    /\ procs = [p \in ProcIds |->
                   IF p = 1 THEN [state |-> "alive", sid |-> 1, dir |-> 1,
                                  out |-> 0, reader |-> "running"]
                   ELSE FreeProc]
    /\ dirs = [d \in DirIds |->
                  IF d = 1 THEN [exists |-> TRUE, hls |-> "ready"] ELSE NoSuchDir]
    /\ pc = [t \in Threads |-> "idle"]
    /\ stack = [t \in Threads |-> <<>>]
    /\ loc = [t \in Threads |-> LocInit]
    /\ rv = [t \in Threads |-> RvInit]
    /\ screenshot_counts = [s \in StreamIds |-> 0]
    /\ screenshots_per_grid = GRID_ROWS * GRID_COLS
    /\ store = [s \in StreamIds |-> 0]
    /\ obs = [s \in StreamIds |-> ObsInit]
    /\ calls = 0
    /\ passes = 0
    /\ healthy = TRUE

InitRing ==
    /\ InitRunning
    /\ InitScheduler
    /\ InitCatalog
    /\ InitBucket
    /\ InitServices
    /\ adapter = [result |-> "none"]
    /\ counters = [s \in RegistryIds |-> [count |-> 0, made |-> 0]]

RingAppend ==
    /\ \E p \in ProcIds : ReaderAppend(p, RingMaxLines)
    /\ UNCHANGED <<sp, drv, sch, cat, gcs, svc>>

\* a client calls stop_stream(1), once
RingStop ==
    /\ pc["c1"] = "idle"
    /\ calls = 0
    /\ calls' = 1
    /\ pc' = [pc EXCEPT !["c1"] = Entry("stop")]
    /\ stack' = [stack EXCEPT !["c1"] = <<"idle">>]
    /\ loc' = [loc EXCEPT !["c1"].sid = 1]
    /\ rv' = [rv EXCEPT !["c1"] = RvInit]
    /\ UNCHANGED <<mgr, env, sp, passes, healthy, sch, cat, gcs, svc>>

RingStopStep ==
    /\ StopPop("c1") \/ StopKill("c1") \/ StopRmtree("c1")
    /\ UNCHANGED <<sp, drv, sch, cat, gcs, svc>>

RingEOF ==
    /\ \E p \in ProcIds : ReaderEOF(p)
    /\ UNCHANGED <<sp, drv, sch, cat, gcs, svc>>

NextRing ==
    \/ RingAppend
    \/ RingStop
    \/ RingStopStep
    \/ RingEOF

SpecRing == InitRing /\ [][NextRing]_vars

\* ----------------------------------- get_streams called by both jobs at once
\* verify_streams and screenshots run in threads of their own and both begin
\* with get_streams(); nothing serialises the calls. One step per statement
\* that reads or writes streams_cache.
SetRefresh(j, r) == refresh' = [refresh EXCEPT ![j] = r]

\* current_time = time.time(); the TTL is taken from the config when None
GsEnter(j) ==
    LET r == refresh[j] IN
    /\ r.at = "idle"
    /\ r.calls < MaxRefreshes
    /\ SetRefresh(j, [r EXCEPT !.at = "test", !.current_time = now,
                               !.calls = @ + 1, !.data = <<>>, !.ret = <<>>])
    /\ streams_cache' = [streams_cache EXCEPT
                            !.ttl = IF @ = 0 THEN STREAMS_CACHE_TTL ELSE @]
    /\ UNCHANGED <<wrote, exRefresh>>

\* if (current_time - last_updated) < ttl: return streams_cache['streams']
GsTest(j) ==
    LET r == refresh[j] IN
    /\ r.at = "test"
    /\ SetRefresh(j, IF CacheValid(streams_cache, r.current_time)
                     THEN [r EXCEPT !.at = "idle", !.ret = streams_cache.streams]
                     ELSE [r EXCEPT !.at = "request"])
    /\ UNCHANGED <<streams_cache, wrote, exRefresh>>

\* requests.get and the tests of its answer: the list of the payload, or the
\* cached list returned on every failure
GsRequest(j) ==
    LET r == refresh[j] IN
    /\ r.at = "request"
    /\ \E o \in FetchOutcomes : \E payload \in Payloads :
          SetRefresh(j, IF o = "ok"
                        THEN [r EXCEPT !.at = "write_streams", !.data = payload]
                        ELSE [r EXCEPT !.at = "idle",
                                       !.ret = streams_cache.streams])
    /\ UNCHANGED <<streams_cache, wrote, exRefresh>>

\* streams_cache['streams'] = streams
GsWriteStreams(j) ==
    LET r == refresh[j] IN
    /\ r.at = "write_streams"
    /\ streams_cache' = [streams_cache EXCEPT !.streams = r.data]
    /\ wrote' = j
    /\ SetRefresh(j, [r EXCEPT !.at = "write_stamp", !.written = r.data])
    /\ UNCHANGED exRefresh

\* streams_cache['last_updated'] = current_time
GsWriteStamp(j) ==
    LET r == refresh[j] IN
    /\ r.at = "write_stamp"
    /\ streams_cache' = [streams_cache EXCEPT !.last_updated = r.current_time]
    /\ SetRefresh(j, [r EXCEPT !.at = "return"])
    /\ UNCHANGED <<wrote, exRefresh>>

\* return streams_cache['streams']
GsReturn(j) ==
    LET r == refresh[j] IN
    /\ r.at = "return"
    /\ SetRefresh(j, [r EXCEPT !.at = "idle", !.ret = streams_cache.streams])
    /\ UNCHANGED <<streams_cache, wrote, exRefresh>>

NextRefresh ==
    \/ \E j \in JobIds : GsEnter(j)
    \/ \E j \in JobIds : GsTest(j)
    \/ \E j \in JobIds : GsRequest(j)
    \/ \E j \in JobIds : GsWriteStreams(j)
    \/ \E j \in JobIds : GsWriteStamp(j)
    \/ \E j \in JobIds : GsReturn(j)
    \/ ClockTick

SpecRefresh == Init /\ [][NextRefresh]_vars

\* ------------------------------------------------------------ the stitcher
Sides == {SmallSide, LargeSide}
\* the urls process_images is given: the size of the image behind each, and
\* whether its download succeeds
UrlInputs ==
    UNION {[1 .. n -> [w : Sides, h : Sides, ok : BOOLEAN]] : n \in 1 .. MaxUrls}

\* annotate_image: a label bar of LABEL_MARGIN rows is put above the image
AnnotateImage(id, img) == [id |-> id, w |-> img.w, h |-> img.h + LABEL_MARGIN]

\* the loop of process_images: the images downloaded and annotated, in order
RECURSIVE ProcessedFrom(_, _)
ProcessedFrom(urls, i) ==
    IF i > Len(urls) THEN <<>>
    ELSE (IF urls[i].ok THEN <<AnnotateImage(i, urls[i])>> ELSE <<>>)
         \o ProcessedFrom(urls, i + 1)

\* variant of CellX that leaves the border out (sensitivity of C31)
CellXNoBorder(i, cols, single_width) == (i % cols) * single_width
\* x = col * (single_width + BORDER_SIZE), col = i % grid_cols
CellX(i, cols, single_width) == (i % cols) * (single_width + BORDER_SIZE)
\* y = row * (single_height + BORDER_SIZE), row = i // grid_cols
CellY(i, cols, single_height) == (i \div cols) * (single_height + BORDER_SIZE)

\* the loop of stitch_images: image i is pasted unless i >= rows * cols
RECURSIVE PasteFrom(_, _, _, _)
PasteFrom(images, i, rows, cols) ==
    IF i > Len(images) \/ i - 1 >= rows * cols THEN <<>>
    ELSE <<[img |-> images[i].id,
            x |-> CellX(i - 1, cols, images[1].w),
            y |-> CellY(i - 1, cols, images[1].h),
            w |-> images[i].w, h |-> images[i].h]>>
         \o PasteFrom(images, i + 1, rows, cols)

\* stitch_images: a white canvas sized by the first image, then the pastes
StitchImages(images, rows, cols) ==
    [width |-> cols * images[1].w + (cols - 1) * BORDER_SIZE,
     height |-> rows * images[1].h + (rows - 1) * BORDER_SIZE,
     pastes |-> PasteFrom(images, 1, rows, cols)]

\* Image.paste: the pixels of the canvas a paste writes
Covers(p, px, py) ==
    /\ p.x <= px /\ px < p.x + p.w
    /\ p.y <= py /\ py < p.y + p.h
\* the image whose pixel shows at (px, py) of the canvas, 0 for the background
PixelOf(canvas, px, py) ==
    LET over == {i \in DOMAIN canvas.pastes : Covers(canvas.pastes[i], px, py)} IN
    IF over = {} THEN 0
    ELSE canvas.pastes[CHOOSE i \in over : \A k \in over : k <= i].img

InitStitch ==
    /\ InitQuiet
    /\ InitSchema
    /\ \E u \in UrlInputs : \E r \in 1 .. MaxGridRows : \E c \in 1 .. MaxGridCols :
         stitcher = [NoStitch EXCEPT !.urls = u, !.rows = r, !.cols = c]

\* process_images(image_urls, output_path, grid_rows, grid_cols)
ProcessImages ==
    /\ stitcher.result = "none"
    /\ LET processed == ProcessedFrom(stitcher.urls, 1) IN
       stitcher' =
         IF processed = <<>>
         THEN [stitcher EXCEPT !.result = "ValueError"]
         ELSE [stitcher EXCEPT !.result = "stitched", !.images = processed,
                               !.canvas = StitchImages(processed, stitcher.rows,
                                                       stitcher.cols)]
    /\ UNCHANGED <<old, schema>>

SpecStitch == InitStitch /\ [][ProcessImages]_vars

\* ----------------------------------------- validate_structured_output
\* a JSON value met where a schema is expected: None, a value that is not a
\* dict, or a dict of which the keys type, properties, required and items are
\* modelled; properties is the list of its (name, schema) items
Node(kind, has, type, propsIsDict, properties, requiredIsList, required, items) ==
    [kind |-> kind, has |-> has, type |-> type, propsIsDict |-> propsIsDict,
     properties |-> properties, requiredIsList |-> requiredIsList,
     required |-> required, items |-> items]
NullNode == Node("null", {}, "", FALSE, <<>>, FALSE, <<>>, <<>>)
OtherNode == Node("other", {}, "", FALSE, <<>>, FALSE, <<>>, <<>>)
Untyped == Node("dict", {}, "", FALSE, <<>>, FALSE, <<>>, <<>>)
Typed(t) == Node("dict", {"type"}, t, FALSE, <<>>, FALSE, <<>>, <<>>)
\* the values of "required" the model draws: absent, not a list, lists of names
ObjectWith(props, req) ==
    Node("dict",
         {"type", "properties"} \cup (IF req = "absent" THEN {} ELSE {"required"}),
         "object", TRUE, props,
         req \notin {"absent", "notlist"},
         IF req = "a" THEN <<"a">> ELSE IF req = "b" THEN <<"b">> ELSE <<>>,
         <<>>)
ArrayOf(n) == Node("dict", {"type", "items"}, "array", FALSE, <<>>, FALSE, <<>>, <<n>>)
Requireds == {"absent", "notlist", "empty", "a", "b"}

RECURSIVE SchemaNodes(_)
SchemaNodes(d) ==
    IF d = 0
    THEN {NullNode, OtherNode, Untyped, Typed("string"), Typed("integer"),
          Typed("object"), Typed("array"),
          [Typed("object") EXCEPT !.has = {"type", "properties"}]}
         \cup {ObjectWith(<<>>, r) : r \in Requireds}
    ELSE LET below == SchemaNodes(d - 1) IN
         below
         \cup {ObjectWith(<<[name |-> "a", node |-> n]>>, r) :
                 n \in below, r \in Requireds}
         \cup {ArrayOf(n) : n \in below}

valid_types == {"string", "number", "boolean", "array", "object"}

RECURSIVE ValidateStructuredOutput(_)
ValidateStructuredOutput(s) ==
    IF s.kind = "null" THEN TRUE
    ELSE IF s.kind # "dict" THEN FALSE
    ELSE IF "type" \notin s.has THEN FALSE
    ELSE IF s.type \notin valid_types THEN FALSE
    ELSE IF s.type = "object"
    THEN IF "properties" \notin s.has THEN FALSE
         ELSE IF ~s.propsIsDict THEN FALSE
         ELSE IF \E i \in DOMAIN s.properties :
                    ~ValidateStructuredOutput(s.properties[i].node) THEN FALSE
         ELSE IF "required" \in s.has
         THEN IF ~s.requiredIsList THEN FALSE
              ELSE \A k \in DOMAIN s.required :
                     \E i \in DOMAIN s.properties :
                        s.properties[i].name = s.required[k]
         ELSE TRUE
    ELSE IF s.type = "array"
    THEN IF "items" \notin s.has THEN FALSE
         ELSE ValidateStructuredOutput(s.items[1])
    ELSE TRUE

InitSchemaCall ==
    /\ InitQuiet
    /\ InitStitcher
    /\ \E s \in SchemaNodes(MaxDepth) : schema = [tree |-> s, result |-> "none"]

\* is_valid, error = validate_structured_output(data['structured_output'])
ValidateSchema ==
    /\ schema.result = "none"
    /\ schema' = [schema EXCEPT !.result =
                     IF ValidateStructuredOutput(schema.tree) THEN "True" ELSE "False"]
    /\ UNCHANGED <<old, stitcher>>

SpecSchema == InitSchemaCall /\ [][ValidateSchema]_vars

\* =================================================================== claims
\* Thread t leaves the statement labelled l in this step.
Leaves(t, l) == pc[t] = l /\ pc'[t] # l

\* The statements of start_stream, and the stop_stream its error paths call.
StartLabels == {"start_reserve", "start_mkdtemp", "start_settemp",
                "start_popen", "launch_register", "start_oserror",
                "verify_check", "start_timeout", "start_failed",
                "start_running"}
InStart(u, s) ==
    /\ loc[u].sid = s
    /\ \/ pc[u] \in StartLabels
       \/ \E i \in DOMAIN stack[u] : stack[u][i] = "start_failed"

\* s is in none of the five dictionaries st, td, pr, sta, lg
Gone(s, st, td, pr, sta, lg) ==
    /\ s \notin Keys(st)
    /\ td[s] = NoDir
    /\ pr[s] = NoProc
    /\ sta[s].status = "absent"
    /\ ~lg[s].has

\* s is not a registered session of st, td, pr, sta
Unregistered(s, st, td, pr, sta) ==
    /\ s \notin Keys(st)
    /\ td[s] = NoDir
    /\ pr[s] = NoProc
    /\ sta[s].status = "absent"

\* tail is the last Min(LOG_TAIL, Len(dq)) elements of dq
IsLastLines(tail, dq) ==
    /\ Len(tail) = (IF Len(dq) < LOG_TAIL THEN Len(dq) ELSE LOG_TAIL)
    /\ \A i \in 1 .. Len(tail) : tail[i] = dq[Len(dq) - Len(tail) + i]

\* ------------------------------------------------------------------------ C1
\* C1: in every reachable state, whatever the interleaving of start_stream,
\* stop_stream, get_stream_status and stop_all calls of concurrent threads, at
\* most one transcoder launched for a stream id is alive, and a live transcoder
\* is the one registered in processes for its stream id, or one that the thread
\* holding it is about to register (_launch_ffmpeg) or to terminate
\* (stop_stream): none is left running once its entry was replaced or removed.
C1_OneLiveTranscoder ==
    \A s \in StreamIds :
        /\ Cardinality(LiveFor(s)) <= 1
        /\ \A p \in LiveFor(s) :
              \/ processes[s] = p
              \/ \E t \in Threads : p \in {loc[t].newp, loc[t].sproc}

\* ------------------------------------------------------------------------ C2
\* C2: start_stream goes on to record 'running' only when a pass of _verify_hls
\* found the playlist, a segment and the #EXTM3U header; and a
\* get_stream_status that returns status 'running' has read a registered
\* process that was alive when polled, also when other threads' stop_stream or
\* crash reaping races with a start_stream in progress.
C2_RunningIsLive ==
    [][\A t \in Clients :
          /\ (pc[t] # "start_running" /\ pc'[t] = "start_running")
                => HlsFound(loc[t].temp)
          /\ (Leaves(t, "stat_poll") /\ rv'[t].op = "status"
                /\ rv'[t].stat.status = "running")
                => (loc[t].qproc # NoProc /\ Alive(loc[t].qproc))]_vars

\* ------------------------------------------------------------------------ C3
\* C3: a start_stream(s) that finds s already registered returns False from the
\* 'already' branch and changes nothing: no process is launched, no directory
\* is created, and the five dictionaries are as they were.
C3_SecondStartChangesNothing ==
    [][\A t \in Clients :
          (Leaves(t, "start_reserve") /\ loc[t].sid \in Keys(streams))
             => /\ rv'[t].op = "start"
                /\ rv'[t].val = "False"
                /\ rv'[t].line = 120
                /\ pc'[t] = Head(stack[t])
                /\ UNCHANGED <<mgr, env>>]_vars

\* C3 witness: a start_stream has just been refused for a stream that is
\* running with exactly one live, registered transcoder.
C3_Witness ==
    \E t \in Clients : \E s \in StreamIds :
        /\ pc[t] = "idle"
        /\ rv[t].op = "start" /\ rv[t].sid = s /\ rv[t].line = 120
        /\ status[s].status = "running"
        /\ Alive(processes[s])
        /\ LiveFor(s) = {processes[s]}

\* ------------------------------------------------------------------------ C4
\* C4: when a stop_stream(s) returns while no other thread is inside
\* start_stream(s), s is in none of streams, status, processes, temp_dirs and
\* ffmpeg_logs, the directory it popped no longer exists, and the process it
\* popped is no longer alive.
C4_StopLeavesNothing ==
    [][\A t \in Clients :
          (Leaves(t, "stop_rmtree")
             /\ ~\E u \in Clients \ {t} : InStart(u, loc[t].sid))
             => /\ Gone(loc[t].sid, streams', temp_dirs', processes', status',
                        ffmpeg_logs')
                /\ loc[t].stemp # NoDir => ~dirs'[loc[t].stemp].exists
                /\ loc[t].sproc # NoProc
                      => procs'[loc[t].sproc].state # "alive"]_vars

\* ------------------------------------------------------------------------ C5
\* C5: a start_stream whose launch failed or whose verification timed out
\* records status 'error' and, when it returns, has returned False with the
\* session torn down: the id is in none of the five dictionaries, the scratch
\* directory is removed and no transcoder of the stream is alive; so a later
\* start_stream for the id is not refused.
C5_FailedStartTearsDown ==
    [][\A t \in Clients :
          /\ (Leaves(t, "start_oserror") \/ Leaves(t, "start_timeout"))
                => status'[loc[t].sid].status = "error"
          /\ Leaves(t, "start_failed")
                => /\ rv'[t].op = "start" /\ rv'[t].val = "False"
                   /\ Gone(loc[t].sid, streams', temp_dirs', processes',
                           status', ffmpeg_logs')
                   /\ loc[t].temp # NoDir => ~dirs'[loc[t].temp].exists
                   /\ \A p \in ProcIds :
                         ~(procs'[p].state = "alive"
                              /\ procs'[p].sid = loc[t].sid)]_vars

\* ------------------------------------------------------------------------ C6
\* C6: a get_stream_status whose poll finds the process exited synthesizes a
\* snapshot with status 'error' carrying the last (at most 5) lines of the
\* stream's ring, calls stop_stream, and returns that snapshot with the id
\* registered in none of streams, status, processes and temp_dirs; one whose
\* poll finds the process alive returns the recorded status and changes nothing.
C6_StatusReaps ==
    [][\A t \in Clients :
          LET s == loc[t].sid IN
          /\ (Leaves(t, "stat_poll") /\ Exited(loc[t].qproc))
                => /\ pc'[t] = "stop_pop"
                   /\ Head(stack'[t]) = "stat_return"
                   /\ loc'[t].stat.status = "error"
                   /\ IsLastLines(loc'[t].stat.logs, ffmpeg_logs[s].dq)
          /\ Leaves(t, "stat_return")
                => /\ rv'[t].op = "status"
                   /\ rv'[t].stat = loc[t].stat
                   /\ rv'[t].stat.status = "error"
                   /\ Len(rv'[t].stat.logs) <= 5
                   /\ Unregistered(s, streams', temp_dirs', processes', status')
          /\ (Leaves(t, "stat_poll") /\ Alive(loc[t].qproc))
                => /\ rv'[t].op = "status"
                   /\ rv'[t].stat = status[s]
                   /\ UNCHANGED <<mgr, env>>]_vars

\* C6 witness: get_stream_status has returned the synthesized snapshot of a
\* transcoder that wrote more than 5 lines before it exited; the snapshot holds
\* the last 5 of them and the stream is no longer registered.
C6_Witness ==
    \E t \in Clients : \E s \in StreamIds :
        /\ pc[t] = "idle"
        /\ rv[t].op = "status" /\ rv[t].sid = s
        /\ rv[t].stat.status = "error"
        /\ Len(rv[t].stat.logs) = LOG_TAIL
        /\ rv[t].stat.logs[1].n = 2
        /\ s \notin Keys(streams)
        /\ status[s].status = "absent"

\* ------------------------------------------------------------------------ C7
\* The stream's transcoder has crashed, or its start has failed.
Down(s) == Exited(processes[s]) \/ status[s].status = "error"
\* verify_streams has observed a status other than 'running' for s, has called
\* stop_stream, and is about to call start_stream.
Restarting(s) == pc["verify"] = "verify_restart" /\ loc["verify"].sid = s

\* C7: once the transcoder can be launched and verified, a stream whose
\* transcoder has crashed or whose start has failed is eventually restarted by
\* verify_streams (status other than 'running' observed, stop_stream, then
\* start_stream) and eventually has status 'running' again, with the
\* screenshots job running concurrently.
C7_RestartLiveness ==
    \A s \in StreamIds :
        /\ (healthy /\ Down(s)) ~> Restarting(s)
        /\ (healthy /\ Down(s)) ~> (status[s].status = "running")

\* ------------------------------------------------------------------------ C8
\* C8: a process_screenshot that initiates a grid dispatch leaves the stream's
\* counter at 0 whether _create_grid succeeded, returned False or raised; and
\* the tick after a failed dispatch does not dispatch again.
C8_ResetBeforeGrid ==
    [][\A s \in StreamIds :
          /\ obs'[s].dispatches > obs[s].dispatches
                => screenshot_counts'[s] = 0
          /\ (obs[s].last = "failed" /\ obs'[s].ticks > obs[s].ticks)
                => obs'[s].dispatches = obs[s].dispatches]_vars

\* C8 witness: the sixth tick dispatched a grid that failed, and the seventh
\* tick counted its upload without dispatching again.
C8_Witness ==
    \E s \in StreamIds :
        /\ obs[s].ticks = 7
        /\ obs[s].dispatches = 1
        /\ obs[s].grids = 0
        /\ screenshot_counts[s] = 1

\* ------------------------------------------------------------------------ C9
\* C9: between two consecutive grid dispatches for a stream exactly
\* screenshots_per_grid uploads to the object store succeed, whatever the
\* outcomes of the calls in between.
C9_UploadsPerGrid ==
    \A s \in StreamIds :
        obs[s].dispatches >= 2 => obs[s].gap = screenshots_per_grid

\* ----------------------------------------------------------------------- C10
\* C10: while every external call succeeds, after k ticks there are k uploads,
\* k \div N grids built and k \div N POSTs to /api/analysis for the stream,
\* N = GRID_ROWS * GRID_COLS.
C10_AllSucceed ==
    \A s \in StreamIds :
        obs[s].clean =>
            /\ obs[s].uploads = obs[s].ticks
            /\ obs[s].grids = obs[s].ticks \div (GRID_ROWS * GRID_COLS)
            /\ obs[s].posts = obs[s].ticks \div (GRID_ROWS * GRID_COLS)

\* ----------------------------------------------------------------------- C11
\* The step is a call of process_screenshot for stream s.
Ticked(s) == obs'[s].ticks = obs[s].ticks + 1

\* C11: a process_screenshot whose upload to the object store did not succeed
\* returns False, leaves every stream's counter and the store as they were,
\* makes no local copy and dispatches no grid, so that the next tick starts
\* from the same processor state.
C11_UploadFailure ==
    [][\A s \in StreamIds :
          (Ticked(s) /\ obs'[s].uploads = obs[s].uploads)
             => /\ obs'[s].ret = "False"
                /\ ~obs'[s].copied
                /\ obs'[s].dispatches = obs[s].dispatches
                /\ obs'[s].grids = obs[s].grids
                /\ screenshot_counts' = screenshot_counts
                /\ store' = store]_vars

\* C11 witness: of three ticks one failed to upload, with the counter at 2
\* after the failure as it would be before it.
C11_Witness ==
    \E s \in StreamIds :
        /\ obs[s].ticks = 3
        /\ obs[s].uploads = 2
        /\ obs[s].ret = "False"
        /\ ~obs[s].copied
        /\ screenshot_counts[s] = 2
        /\ store[s] = 2

C13_PassIsolation ==
    \A j \in JobIds : \A r \in RunsOf(j) :
        /\ r.at # "escaped"
        /\ r.handled \o (IF r.sid = 0 THEN <<>> ELSE <<r.sid>>) \o r.todo
              = Registry
        /\ r.at = "return" => r.handled = Registry

\* C13 witness: both jobs have a run about to return that caught an exception
\* while it handled the first stream and went on to handle the others.
C13_Witness ==
    \A j \in JobIds :
        \E r \in RunsOf(j) :
            /\ r.at = "return"
            /\ 1 \in r.caught
            /\ r.handled = Registry
            /\ Len(r.handled) >= 2

\* ----------------------------------------------------------------------- C14
\* C14: a job never has two runs in progress; an interval that elapses while
\* the job's run is in progress starts nothing and is counted as dropped; and
\* a run starts only in the step in which the interval elapses, with no run of
\* the job in progress: a dropped run is not started later.
C14_OverlapSuppression ==
    [][\A j \in JobIds :
          /\ Len(instances[j]) <= 1 /\ Len(instances'[j]) <= 1
          /\ (joblog'[j].due > joblog[j].due /\ Len(instances[j]) >= 1)
                => /\ instances'[j] = instances[j]
                   /\ joblog'[j].dropped = joblog[j].dropped + 1
          /\ Len(instances'[j]) > Len(instances[j])
                => /\ joblog'[j].due = joblog[j].due + 1
                   /\ joblog'[j].dropped = joblog[j].dropped
                   /\ instances[j] = <<>>]_vars

\* C14 witness: the interval of the screenshots job elapsed while its run was
\* creating a grid; the run was dropped and the one in progress goes on.
C14_Witness ==
    /\ joblog["screenshots"].dropped = 1
    /\ joblog["screenshots"].due = 2
    /\ \E r \in RunsOf("screenshots") : r.at = "ps_grid"
    /\ Len(instances["screenshots"]) = 1

\* ----------------------------------------------------------------------- C15
\* C15: for every stream at most one run is inside process_screenshot (the
\* increment, the test, the reset, the grid), and the stream's counter is the
\* number of increments made since its last reset: none is lost.
C15_SerializedPerStream ==
    \A s \in RegistryIds :
        /\ \A i, k \in 1 .. Len(instances["screenshots"]) :
              LET r == instances["screenshots"][i]
                  q == instances["screenshots"][k] IN
              ({r.at, q.at} \subseteq {"ps_read", "ps_write", "ps_test", "ps_grid"}
                  /\ r.sid = s /\ q.sid = s) => i = k
        /\ counters[s].count = counters[s].made

\* C15 witness: the second run of the job has counted a screenshot of stream 1
\* after the first run reset its counter, and is creating the grid of stream 2.
C15_Witness ==
    /\ joblog["screenshots"].due = 2
    /\ joblog["screenshots"].dropped = 0
    /\ counters[1].count = 1
    /\ counters[2].count = 0
    /\ \E r \in RunsOf("screenshots") : r.at = "ps_grid" /\ r.sid = 2

\* ----------------------------------------------------------------------- C16
\* C16: no step of get_latest_frame changes the manager's five dictionaries
\* (so a session that is 'running' stays 'running'), and the call returns the
\* path of the frame or None: it raises nothing.
C16_FrameReadOnly ==
    [][\A t \in Threads :
          (Leaves(t, "frame_read") \/ Leaves(t, "frame_isdir")
              \/ Leaves(t, "frame_extract"))
             => /\ UNCHANGED mgr
                /\ Leaves(t, "frame_read") => UNCHANGED rv
                /\ ~Leaves(t, "frame_read")
                      => (pc'[t] = "frame_extract"
                             \/ (rv'[t].op = "frame"
                                   /\ rv'[t].val \in {"path", "None"}))]_vars

\* ----------------------------------------------------------------------- C17
\* C17: when stop_all returns, with no other thread inside start_stream, no
\* transcoder launched by the manager is alive and the five dictionaries are
\* empty; and a stop_all that finds no stream changes nothing.
C17_StopAllEmpties ==
    [][\A t \in Clients :
          (pc[t] = "stopall_loop" /\ pc'[t] = "idle"
              /\ ~\E u \in Clients \ {t} : \E s \in StreamIds : InStart(u, s))
             => /\ \A p \in ProcIds : procs'[p].state # "alive"
                /\ \A s \in StreamIds :
                      Gone(s, streams', temp_dirs', processes', status',
                           ffmpeg_logs')
                /\ rv'[t].op = "stop_all" /\ rv'[t].val = "None"]_vars

\* ----------------------------------------------------------------------- C18
\* C18: a get_streams that finds the cache expired and whose refresh fails
\* (error status, payload without 'streams', connection error, timeout or any
\* other exception) returns the list that was cached and leaves the cached
\* list and last_updated as they were, so that the cache is still expired for
\* the next call.
C18_CacheFallback ==
    [][(fetched'.calls = fetched.calls + 1 /\ fetched'.requested
          /\ fetched'.outcome # "ok")
         => /\ fetched'.ret = streams_cache.streams
            /\ streams_cache'.streams = streams_cache.streams
            /\ streams_cache'.last_updated = streams_cache.last_updated
            /\ ~CacheValid(streams_cache', now')]_vars

\* C18 witness: a refresh succeeded, the cache expired, and the refresh of the
\* last call timed out: the call returned the list cached before.
C18_Witness ==
    /\ fetched.requested
    /\ fetched.outcome = "timeout"
    /\ fetched.ret = <<1, 2>>
    /\ streams_cache.streams = <<1, 2>>
    /\ streams_cache.last_updated > 0
    /\ now - streams_cache.last_updated >= streams_cache.ttl

\* ----------------------------------------------------------------------- C19
\* C19: in every grid stitched, the screenshots in row-major order (row by
\* row, left to right) have non-decreasing timestamps as embedded in their
\* blob keys, whatever blobs are stored under the stream's prefix and in
\* whatever order they were uploaded.
C19_GridOldestToNewest ==
    \A i, k \in DOMAIN grid :
        (grid[i].cell.row < grid[k].cell.row
            \/ (grid[i].cell.row = grid[k].cell.row
                   /\ grid[i].cell.col < grid[k].cell.col))
           => grid[i].stamp <= grid[k].stamp

\* ----------------------------------------------------------------------- C20
\* C20: for every valid schema of the SOP and every response of the model
\* that is valid for it, the analysis returns the response and writes it as
\* the output of the analysis record, and that value satisfies the schema.
C20_SchemaRoundTrip ==
    adapter.result \notin {"none", "pending"}
       => /\ adapter.result = "returned"
          /\ adapter.output.written
          /\ adapter.output.value = adapter.response
          /\ Satisfies(adapter.output.value, adapter.sop)

\* the deadline was reached before the last chunk was accumulated
ReachedBeforeComplete ==
    /\ vision.elapsed >= TIMEOUT_SECONDS
    /\ vision.fullAt = -1 \/ vision.fullAt >= TIMEOUT_SECONDS

\* C21: a finished vision call during which the elapsed time reached
\* timeout_seconds before the response was fully accumulated ended with the
\* timeout error and returned no value; a call whose response was fully
\* accumulated before the deadline did not end with the timeout error.
C21_DeadlineBound ==
    vision.at = "done" =>
       /\ ReachedBeforeComplete => vision.result = "GeminiTimeoutError"
       /\ (vision.fullAt # -1 /\ vision.fullAt < TIMEOUT_SECONDS)
             => vision.result # "GeminiTimeoutError"

HasWhitespace(h) == \E i \in 1 .. Len(h) : h[i] \in Whitespace

\* C22: validate_rtsp_url answers True for an rtsp:// URL whose host is a
\* dotted domain name, or an IPv4 address with or without user:password@, with
\* or without a port and a path; it answers False for a URL that does not
\* start with rtsp://, has an empty host, or has whitespace in its host.
C22_RtspUrlValidation ==
    rtsp.result # "none" =>
       LET u == rtsp.parts IN
       /\ ( /\ u.scheme = RtspScheme
            /\ \/ u.host \in DomainHosts /\ u.userinfo = <<>>
               \/ u.host \in Ipv4Hosts )
          => rtsp.result = "True"
       /\ (u.scheme # RtspScheme \/ u.host = <<>> \/ HasWhitespace(u.host))
          => rtsp.result = "False"

\* C23: whenever a thread is about to read or write one of the manager's
\* dictionaries (streams, status, processes, temp_dirs, ffmpeg_logs), in any
\* of the public methods or in the stderr reader, it holds the manager's lock.
C23_MapsUnderLock ==
    \A t \in LockThreads :
       (prog[t] # <<>> /\ NextOp(t).op = "map") => holder = t

\* a thread about to do one of the things that must not happen under the lock:
\* external work, or taking the lock again (as a call of stop_stream would)
Outside(t) ==
    (prog[t] # <<>> /\ NextOp(t).op \in {"io", "acquire"}) => holder # t

Appended(p) == procs'[p].out = procs[p].out + 1
FullRing(s) == Len(ffmpeg_logs[s].dq) = LOG_HISTORY_SIZE

\* C25: the ring of every stream holds at most 100 lines in every state; a
\* line appended to a full ring leaves the ring's former lines but the oldest,
\* in their order, followed by the new line.
C25_RingBounded ==
    /\ [](\A s \in StreamIds : Len(ffmpeg_logs[s].dq) <= LOG_HISTORY_SIZE)
    /\ [][\A p \in ProcIds :
            (Appended(p) /\ FullRing(procs[p].sid)) =>
               ffmpeg_logs'[procs[p].sid].dq =
                  Append(Tail(ffmpeg_logs[procs[p].sid].dq),
                         [p |-> p, n |-> procs'[p].out])]_vars

\* a ring that has dropped its oldest line
C25_Witness ==
    \E s \in StreamIds :
       /\ FullRing(s)
       /\ ffmpeg_logs[s].dq[1].n > 1

\* the screenshots job calls get_latest_frame in this step
CallsLatestFrame == pc["shots"] = "shots_status" /\ pc'["shots"] = "frame_read"
\* process_screenshot is called for stream s in this step
CallsProcess(s) == obs'[s].ticks # obs[s].ticks
\* the pass leaves the stream it is at without calling process_screenshot
SkipsStream ==
    \/ pc["shots"] = "shots_status" /\ pc'["shots"] = "shots_loop"
    \/ /\ pc["shots"] = "shots_frame"
       /\ pc'["shots"] = "shots_loop"
       /\ rv["shots"].val # "path"

\* C26: the screenshots pass calls get_latest_frame for a stream only when
\* get_stream_status has just returned status "running" for it, and calls
\* process_screenshot only for the stream whose get_latest_frame has just
\* returned a path; when it skips a stream, nothing is uploaded and no
\* counter changes.
C26_OnlyRunningCaptured ==
    [][ /\ CallsLatestFrame =>
             /\ rv["shots"].op = "status"
             /\ rv["shots"].sid = loc["shots"].sid
             /\ rv["shots"].stat.status = "running"
        /\ \A s \in StreamIds : CallsProcess(s) =>
             /\ pc["shots"] = "shots_frame"
             /\ loc["shots"].sid = s
             /\ rv["shots"].op = "frame"
             /\ rv["shots"].sid = s
             /\ rv["shots"].val = "path"
        /\ SkipsStream => UNCHANGED <<store, screenshot_counts, obs>>
      ]_vars

\* get_latest_frame has returned a path to the pass
C26_Witness ==
    /\ pc["shots"] = "shots_frame"
    /\ rv["shots"].op = "frame"
    /\ rv["shots"].val = "path"

\* _create_grid was called for s in this step and the listing returned a
\* number of URLs other than screenshots_per_grid
ShortListing(s) ==
    /\ obs'[s].ticks # obs[s].ticks
    /\ obs'[s].urls # -1
    /\ obs'[s].urls # screenshots_per_grid'

\* C27: when the listing returns a number of URLs different from
\* screenshots_per_grid (the empty list of a listing error included),
\* _create_grid builds no grid, dispatches no analysis, posts no analysis
\* record and returns False, and the stream's counter is 0 afterwards.
C27_ShortListingSkipsGrid ==
    [][\A s \in StreamIds : ShortListing(s) =>
          /\ obs'[s].grids = obs[s].grids
          /\ obs'[s].posts = obs[s].posts
          /\ obs'[s].analysis = "none"
          /\ obs'[s].last = "failed"
          /\ obs'[s].ret = "False"
          /\ screenshot_counts'[s] = 0]_vars

\* a dispatch whose listing failed
C27_Witness ==
    \E s \in StreamIds :
       /\ obs[s].dispatches > 0
       /\ obs[s].urls = 0
       /\ obs[s].last = "failed"

\* a grid was stitched for s in this step
GridBuilt(s) == Ticked(s) /\ obs'[s].grids = obs[s].grids + 1

\* C28: after a grid has been stitched for a stream that has a SOP, one
\* analysis is dispatched, and when every call of the tick succeeded its
\* result is posted once to /api/analysis; for a stream without SOP no
\* analysis is dispatched, nothing is posted and _create_grid returns True.
C28_FirstSopAnalysed ==
    [][\A s \in StreamIds : GridBuilt(s) =>
          /\ obs'[s].sops = "some" =>
                /\ obs'[s].analysis # "none"
                /\ obs'[s].posts <= obs[s].posts + 1
                /\ obs'[s].ok =>
                      /\ obs'[s].analysis = "posted"
                      /\ obs'[s].posts = obs[s].posts + 1
          /\ obs'[s].sops = "none" =>
                /\ obs'[s].analysis = "none"
                /\ obs'[s].posts = obs[s].posts
                /\ obs'[s].last = "built"]_vars

\* job j leaves the statement at label l in this step
Passes(j, l) == refresh[j].at = l /\ refresh'[j].at # l

\* C29: a get_streams that finds less than ttl seconds elapsed since
\* last_updated returns the cached list and makes no request, and makes a
\* request otherwise; a successful fetch writes its list and its time to the
\* cache; whatever refreshes run at the same time, the cache holds the list of
\* the one that wrote last.
C29_TtlAndLastWriter ==
    /\ [][\A j \in JobIds :
            /\ Passes(j, "test") =>
                  IF refresh[j].current_time - streams_cache.last_updated
                        < STREAMS_CACHE_TTL
                  THEN /\ refresh'[j].at = "idle"
                       /\ refresh'[j].ret = streams_cache.streams
                       /\ streams_cache' = streams_cache
                  ELSE refresh'[j].at = "request"
            /\ Passes(j, "write_streams") =>
                  streams_cache'.streams = refresh[j].data
            /\ Passes(j, "write_stamp") =>
                  streams_cache'.last_updated = refresh[j].current_time]_vars
    /\ [](wrote # "none" => streams_cache.streams = refresh[wrote].written)

\* two refreshes ran at the same time and fetched different lists; the cache
\* holds the list of the job that wrote last
C29_Witness ==
    \E j, k \in JobIds :
       /\ j # k
       /\ wrote = j
       /\ refresh[j].at \in {"write_stamp", "return"}
       /\ refresh[k].at \in {"write_stamp", "return"}
       /\ refresh[j].written # refresh[k].written
       /\ streams_cache.streams = refresh[j].written

\* the key get_recent_screenshot_urls sorts blob b by
SortKey(b) == GetTimestamp(b).at

CellPixels(k, cols, w, h) ==
    {<<px, py>> \in (CellX(k, cols, w) .. CellX(k, cols, w) + w - 1)
                    \X (CellY(k, cols, h) .. CellY(k, cols, h) + h - 1) : TRUE}
\* the images of a stitch are placed row-major at the offsets of their cells,
\* at most rows * cols of them, on a canvas of the size of the grid
PlacedRowMajor ==
    LET s == stitcher
        w == s.images[1].w
        h == s.images[1].h
        n == IF Len(s.images) < s.rows * s.cols THEN Len(s.images)
             ELSE s.rows * s.cols IN
    /\ Len(s.canvas.pastes) = n
    /\ \A i \in 0 .. n - 1 :
         LET p == s.canvas.pastes[i + 1] IN
         /\ p.img = s.images[i + 1].id
         /\ p.x = (i % s.cols) * (w + 10)
         /\ p.y = (i \div s.cols) * (h + 10)
    /\ s.canvas.width = s.cols * w + (s.cols - 1) * 10
    /\ s.canvas.height = s.rows * h + (s.rows - 1) * 10
\* the cells past the last image placed show the background only
EmptyCellsBackground ==
    LET s == stitcher
        w == s.images[1].w
        h == s.images[1].h IN
    \A k \in Len(s.canvas.pastes) .. s.rows * s.cols - 1 :
        \A px \in CellPixels(k, s.cols, w, h) : PixelOf(s.canvas, px[1], px[2]) = 0
\* the images handed to stitch are no larger than the first of them
UniformSources ==
    \A i \in DOMAIN stitcher.images :
        /\ stitcher.images[i].w <= stitcher.images[1].w
        /\ stitcher.images[i].h <= stitcher.images[1].h

\* C31 (as stated): stitch places image i in row i div C and column i mod C at
\* the offset of that cell, places at most R * C images, sizes the canvas to
\* the grid, and the cells with no image keep the background.
C31_StitchAsStated ==
    stitcher.result = "stitched" => PlacedRowMajor /\ EmptyCellsBackground

\* C31 (amended): the placement and the canvas size are as stated; the cells
\* with no image keep the background when no image is larger than the first.
C31_StitchRowMajor ==
    stitcher.result = "stitched" =>
        /\ PlacedRowMajor
        /\ UniformSources => EmptyCellsBackground

\* a grid of uniform images with an image left out, an empty cell and a
\* download that failed
C31_Witness ==
    /\ stitcher.result = "stitched"
    /\ UniformSources
    /\ stitcher.rows = 2 /\ stitcher.cols = 2
    /\ Len(stitcher.canvas.pastes) = 2
    /\ Len(stitcher.images) < Len(stitcher.urls)

\* every node of schema s has a type among the five, every object node has a
\* properties map holding each name of its required list, every array node
\* has items; the nodes are s, the values of properties and the items
RECURSIVE EveryNodeWellFormed(_)
EveryNodeWellFormed(s) ==
    /\ s.kind = "dict"
    /\ "type" \in s.has
    /\ s.type \in {"string", "number", "boolean", "array", "object"}
    /\ s.type = "object" =>
         /\ "properties" \in s.has /\ s.propsIsDict
         /\ "required" \in s.has =>
              /\ s.requiredIsList
              /\ \A k \in DOMAIN s.required :
                   \E i \in DOMAIN s.properties : s.properties[i].name = s.required[k]
         /\ \A i \in DOMAIN s.properties : EveryNodeWellFormed(s.properties[i].node)
    /\ s.type = "array" =>
         /\ "items" \in s.has
         /\ EveryNodeWellFormed(s.items[1])

\* C32: validate_structured_output accepts a schema that is given (not None)
\* if and only if every node of it is well formed.
C32_AcceptsIffWellFormed ==
    (schema.result # "none" /\ schema.tree.kind # "null") =>
        (schema.result = "True" <=> EveryNodeWellFormed(schema.tree))

\* C33: a call of analyze_screenshot that fails raises GeminiConfigError for
\* an API error whose text mentions deprecation and GeminiAnalysisError (or
\* its sub-kind GeminiTimeoutError, for the timeout) for every other cause:
\* text that is not JSON, a missing or unsupported image, any other failure.
C33_OwnErrorKinds ==
    vision.at = "done" =>
        /\ vision.result \in {"value", "GeminiConfigError", "GeminiAnalysisError",
                              "GeminiTimeoutError"}
        /\ vision.cause = "none" <=> vision.result = "value"
        /\ vision.cause = "api_deprecated" <=> vision.result = "GeminiConfigError"
        /\ vision.cause = "timeout" <=> vision.result = "GeminiTimeoutError"
        /\ vision.cause \in {"not_json", "missing", "not_image", "unsupported",
                             "unreadable", "api_error", "missing_field"}
             => vision.result = "GeminiAnalysisError"

\* the stream broke after a chunk with an error that is not the service's own
C33_Witness ==
    /\ vision.at = "done"
    /\ vision.cause = "api_error"
    /\ vision.got > 0
    /\ vision.result = "GeminiAnalysisError"

\* thread t is inside the stop_stream that get_stream_status called for a
\* process it found exited
Reaping(t) == stack[t] # <<>> /\ Head(stack[t]) = "stat_return"

\* C34: the stop_stream triggered by get_stream_status for an exited process
\* never terminates a live process and never removes the directory a live
\* process writes to (the process it observed has exited, so these are of a
\* session started after the read).
C34_ReapingConfined ==
    [][\A t \in Clients :
          /\ (Reaping(t) /\ pc[t] = "stop_kill" /\ pc'[t] = "stop_rmtree")
                => ~Alive(loc[t].sproc)
          /\ (Reaping(t) /\ pc[t] = "stop_rmtree" /\ pc'[t] # "stop_rmtree")
                => ~\E p \in ProcIds :
                       /\ Alive(p)
                       /\ procs[p].dir = loc[t].stemp
                       /\ dirs[loc[t].stemp].exists
      ]_vars

\* no call of the manager is in progress and no stderr reader is running for s
NothingInProgress(s) ==
    /\ \A t \in Clients : pc[t] = "idle"
    /\ \A p \in ProcIds : procs[p].reader = "running" => procs[p].sid # s

\* C35: whenever nothing is in progress for an id, the id is a key of status,
\* temp_dirs, processes or ffmpeg_logs only if it is a key of streams.
C35_MapsAgree ==
    \A s \in StreamIds :
        (NothingInProgress(s) /\ s \notin Keys(streams)) =>
            /\ status[s] = StatAbsent
            /\ temp_dirs[s] = NoDir
            /\ processes[s] = NoProc
            /\ ~ffmpeg_logs[s].has

\* the stderr reader of process p appends a line in this step
ReaderAppends(p) ==
    /\ procs[p].reader = "running"
    /\ procs'[p].reader = "running"
    /\ procs'[p].out = procs[p].out + 1

\* C36: a stderr reader appends only to the ring of its own session: the ring
\* of its stream exists (it is not re-created after stop_stream popped it) and
\* the process registered for the stream is the reader's own.
C36_ReaderOwnRing ==
    [][\A p \in ProcIds :
          ReaderAppends(p) =>
              /\ ffmpeg_logs[procs[p].sid].has
              /\ processes[procs[p].sid] = p
      ]_vars

C38_KeyRoundTrip ==
    \A b \in bucket :
        GetTimestamp(b) = [kind |-> "parsed", at |-> KeyStamp(b)]
====
